---- MODULE Spec2Model ----
(***************************************************************************)
(* Document intelligence and question pre-fill pipeline of Aspiro-Backend. *)
(*                                                                         *)
(* A JavaScript string is a sequence of tokens (a token stands for a run   *)
(* of characters); toLowerCase and includes work on these sequences as     *)
(* String.prototype.toLowerCase / includes work on characters.             *)
(* Confidence values are scaled by ConfScale so that k/3 and the decimal   *)
(* constants 0.9, 0.8, 0.7, 0.3 are all integers.                          *)
(***************************************************************************)
EXTENDS Integers, Sequences, FiniteSets, TLC

VARIABLES
    uploadedFiles,        \* req.files: the multer uploads of the request
    questions,            \* active Question documents of the database
    disk,                 \* paths of the temporary files present in uploads/
    pc,                   \* position of the preFillQuestions handler
    processingLog,        \* status of the AIProcessingLog of the request
    parsedDocuments,      \* parseAllDocuments: results pushed so far
    combinedDocumentData, \* merged profile, Null before the merge
    questionMappings,     \* analyzeDocumentMapping result, Null before it
    preFilledAnswers,     \* question id -> answer object
    genIndex,             \* position of generatePreFilledAnswers in its loops
    aiCalls,              \* question ids for which the OpenAI client was called
    aiOutcomes,           \* question id -> what the collaborator did for it
    preFillResults,       \* return value of processDocumentsAndPreFill
    response,             \* HTTP outcome of the request
    fnCall,               \* SpecAnswer: the arguments of one service call
    fnResult,             \* SpecAnswer: what the call returned
    requests,             \* the requests the server is handling concurrently
    users,                \* the User collection: email -> account document
    roadmaps,             \* the Roadmap collection: the documents saved so far
    now,                  \* Date.now(), in units of ten minutes
    history               \* what the handlers did so far (observations only)

vars == <<uploadedFiles, questions, disk, pc, processingLog, parsedDocuments,
          combinedDocumentData, questionMappings, preFilledAnswers, genIndex,
          aiCalls, aiOutcomes, preFillResults, response, fnCall, fnResult,
          requests, users, roadmaps, now, history>>

serverVars == <<requests, users, roadmaps, now, history>>

pipelineVars == <<uploadedFiles, questions, disk, pc, processingLog,
                  parsedDocuments, combinedDocumentData, questionMappings,
                  preFilledAnswers, genIndex, aiCalls, aiOutcomes,
                  preFillResults, response>>

----------------------------------------------------------------------------
(* Bounds *)

MaxFiles == 2
MaxQuestions == 2
MaxOptions == 2
MaxEntries == 2

(* Confidence scale: 0.9 -> 27, 0.8 -> 24, 0.7 -> 21, 0.3 -> 9, 1 -> 30. *)
ConfScale == 3 * 10

----------------------------------------------------------------------------
(* JavaScript values *)

Undefined == <<"#undefined">>   \* the value undefined (not a string)
Null == <<"#null">>             \* the value null (not a string)
NotSpecified == <<"Not specified">>

(* a JavaScript value used as a condition; the values here are strings,    *)
(* undefined and null                                                      *)
Truthy(v) == v # Undefined /\ v # Null /\ v # <<>>

UpperTokens == [Java |-> "java", Script |-> "script", Py |-> "py",
                French |-> "french", Skill |-> "skill", BSc |-> "bsc",
                Dev |-> "dev", Aws |-> "aws", Yes |-> "yes",
                German |-> "german", English |-> "english", Hindi |-> "hindi",
                Lead |-> "lead", Ibm |-> "ibm", Skills |-> "skills",
                Education |-> "education", Software |-> "software",
                Languages |-> "languages", Python |-> "python",
                React |-> "react"]

toLowerCase(s) ==
    [i \in 1..Len(s) |-> IF s[i] \in DOMAIN UpperTokens THEN UpperTokens[s[i]]
                         ELSE s[i]]

(* s.includes(t) *)
includes(s, t) ==
    \E i \in 0..(Len(s) - Len(t)) : SubSeq(s, i + 1, i + Len(t)) = t

(* array.find(p): index of the first element satisfying P, 0 when none *)
FindIndex(seq, P(_)) ==
    IF \E i \in 1..Len(seq) : P(seq[i])
    THEN CHOOSE i \in 1..Len(seq) : P(seq[i]) /\ \A j \in 1..(i - 1) : ~P(seq[j])
    ELSE 0

(* the option / value test used by every matcher of the services *)
MatchesEitherWay(option, value) ==
    \/ includes(toLowerCase(option), toLowerCase(value))
    \/ includes(toLowerCase(value), toLowerCase(option))

----------------------------------------------------------------------------
(* AISuggestionService *)

(* the chain with the career_goals test ahead of the experience test *)
determineQuestionTypeGoalsFirst(questionText) ==
    LET text == toLowerCase(questionText)
        has(k) == includes(text, <<k>>)
    IN  IF has("skill") \/ has("programming") \/ has("technology") THEN "skills"
        ELSE IF has("education") \/ has("degree") \/ has("university") THEN "education"
        ELSE IF has("goal") \/ has("objective") \/ has("aspiration") THEN "career_goals"
        ELSE IF has("experience") \/ has("work") \/ has("career") THEN "experience"
        ELSE IF has("certification") \/ has("certificate") THEN "certifications"
        ELSE IF has("language") THEN "languages"
        ELSE "general"

determineQuestionType(questionText) ==
    LET text == toLowerCase(questionText)
        has(k) == includes(text, <<k>>)
    IN  IF has("skill") \/ has("programming") \/ has("technology") THEN "skills"
        ELSE IF has("education") \/ has("degree") \/ has("university") THEN "education"
        ELSE IF has("experience") \/ has("work") \/ has("career") THEN "experience"
        ELSE IF has("goal") \/ has("objective") \/ has("aspiration") THEN "career_goals"
        ELSE IF has("certification") \/ has("certificate") THEN "certifications"
        ELSE IF has("language") THEN "languages"
        ELSE "general"

(* the switch without its languages case *)
hasDirectMatchNoLanguages(documentData, questionType) ==
    CASE questionType = "skills" -> Len(documentData.skills) > 0
      [] questionType = "education" -> Len(documentData.education) > 0
      [] questionType = "experience" -> Len(documentData.experience) > 0
      [] questionType = "certifications" -> Len(documentData.certifications) > 0
      [] OTHER -> FALSE

hasDirectMatch(documentData, questionType) ==
    CASE questionType = "skills" -> Len(documentData.skills) > 0
      [] questionType = "education" -> Len(documentData.education) > 0
      [] questionType = "experience" -> Len(documentData.experience) > 0
      [] questionType = "certifications" -> Len(documentData.certifications) > 0
      [] questionType = "languages" -> Len(documentData.languages) > 0
      [] OTHER -> FALSE

(* documentData[questionType]: the profile has list fields named skills,   *)
(* education, experience, certifications, languages, projects and          *)
(* achievements; career_goals and general name no field                    *)
ProfileField(documentData, questionType) ==
    IF questionType \in DOMAIN documentData THEN documentData[questionType]
    ELSE <<>>

Min(a, b) == IF a <= b THEN a ELSE b

(* the score without its cap *)
calculateConfidenceUnclamped(documentData, questionType) ==
    LET data == ProfileField(documentData, questionType)
    IN  IF Len(data) = 0 THEN 0
        ELSE (Len(data) * ConfScale) \div 3

calculateConfidence(documentData, questionType) ==
    LET data == ProfileField(documentData, questionType)
    IN  IF Len(data) = 0 THEN 0
        ELSE Min((Len(data) * ConfScale) \div 3, ConfScale)

supportedTypes ==
    {"skills", "education", "experience", "career_goals", "certifications",
     "languages", "general"}

canGenerateSuggestions(questionType) == questionType \in supportedTypes

EmptyMappings == [autoFill |-> <<>>, aiSuggestions |-> <<>>, noMatch |-> <<>>]

(* the loop body with the second branch not excluded by the first *)
MapQuestionNoElse(mappings, documentData, question) ==
    LET questionType == determineQuestionType(question.text)
        base == [questionId |-> question._id, questionType |-> questionType]
        first == IF hasDirectMatch(documentData, questionType)
                 THEN [mappings EXCEPT !.autoFill = Append(@,
                         [questionId |-> question._id, questionType |-> questionType,
                          confidence |-> calculateConfidence(documentData, questionType)])]
                 ELSE mappings
    IN  IF canGenerateSuggestions(questionType)
        THEN [first EXCEPT !.aiSuggestions = Append(@, base)]
        ELSE [first EXCEPT !.noMatch = Append(@, base)]

(* one iteration of the for loop of analyzeDocumentMapping *)
MapQuestion(mappings, documentData, question) ==
    LET questionType == determineQuestionType(question.text)
        base == [questionId |-> question._id, questionType |-> questionType]
    IN  IF hasDirectMatch(documentData, questionType)
        THEN [mappings EXCEPT !.autoFill = Append(@,
                 [questionId |-> question._id, questionType |-> questionType,
                  confidence |-> calculateConfidence(documentData, questionType)])]
        ELSE IF canGenerateSuggestions(questionType)
        THEN [mappings EXCEPT !.aiSuggestions = Append(@, base)]
        ELSE [mappings EXCEPT !.noMatch = Append(@, base)]

RECURSIVE MapQuestions(_, _, _, _)
MapQuestions(mappings, documentData, qs, i) ==
    IF i > Len(qs) THEN mappings
    ELSE MapQuestions(MapQuestion(mappings, documentData, qs[i]),
                      documentData, qs, i + 1)

analyzeDocumentMapping(documentData, qs) ==
    MapQuestions(EmptyMappings, documentData, qs, 1)

(* the fallback that ignores the supplied options *)
getFallbackAnswerNoOptions(questionType, existingOptions) == NotSpecified

getFallbackAnswer(questionType, existingOptions) ==
    IF Len(existingOptions) > 0 THEN existingOptions[1] ELSE NotSpecified

(* whitespace, line-break and quote characters of a response *)
SP == " "
NL == "\n"
QUOTE == "\""

IsSpace(t) == t \in {SP, NL}

RECURSIVE trimStart(_)
trimStart(s) == IF s # <<>> /\ IsSpace(Head(s)) THEN trimStart(Tail(s)) ELSE s

RECURSIVE trimEnd(_)
trimEnd(s) ==
    IF s # <<>> /\ IsSpace(s[Len(s)]) THEN trimEnd(SubSeq(s, 1, Len(s) - 1))
    ELSE s

trim(s) == trimEnd(trimStart(s))

(* s.replace(/^["']|["']$/g, '') *)
stripQuotes(s) ==
    LET a == IF s # <<>> /\ Head(s) = QUOTE THEN Tail(s) ELSE s
    IN  IF a # <<>> /\ a[Len(a)] = QUOTE THEN SubSeq(a, 1, Len(a) - 1) ELSE a

(* s.split('\n')[0] *)
firstLine(s) ==
    LET k == FindIndex(s, LAMBDA t : t = NL)
    IN  IF k = 0 THEN s ELSE SubSeq(s, 1, k - 1)

(* the first line of the cleaned response *)
mainAnswerOf(aiResponse) ==
    LET cleanResponse == stripQuotes(trim(aiResponse))
    IN  trim(firstLine(cleanResponse))

parseDirectAnswer(aiResponse, existingOptions) ==
    LET mainAnswer == mainAnswerOf(aiResponse)
        hit(option) ==
            \/ toLowerCase(option) = toLowerCase(mainAnswer)
            \/ includes(toLowerCase(option), toLowerCase(mainAnswer))
            \/ includes(toLowerCase(mainAnswer), toLowerCase(option))
        k == FindIndex(existingOptions, hit)
    IN  IF Len(existingOptions) > 0 /\ k # 0 /\ Truthy(existingOptions[k])
        THEN existingOptions[k]
        ELSE IF Truthy(mainAnswer) THEN mainAnswer ELSE NotSpecified

(* What the OpenAI client does for one call.  kind is                      *)
(*   "noKey"       OPENAI_API_KEY is unset: generateDirectAnswer throws    *)
(*                 before the client is called                             *)
(*   "raise"       chat.completions.create rejects (transport error,       *)
(*                 timeout, quota)                                         *)
(*   "nullContent" the call resolves without message content, and          *)
(*                 parseDirectAnswer throws a TypeError on it              *)
(*   "text"        the call resolves with the text in content              *)
Outcome(kind, content) == [kind |-> kind, content |-> content]

generateDirectAnswer(questionText, questionType, documentData, existingOptions, outcome) ==
    IF outcome.kind = "text"
    THEN [success |-> TRUE,
          answer |-> parseDirectAnswer(outcome.content, existingOptions),
          fallback |-> FALSE]
    ELSE [success |-> FALSE,
          answer |-> getFallbackAnswer(questionType, existingOptions),
          fallback |-> TRUE]

(* the call reaches the OpenAI client unless the key check throws first *)
InvokesCollaborator(outcome) == outcome.kind # "noKey"

----------------------------------------------------------------------------
(* Items of the list fields of a profile.  An array element is a string,   *)
(* the value undefined, or an object.                                      *)

StrItem(s) == [str |-> s]
UndefinedItem == [undefined |-> TRUE]

TypeofString(item) == "str" \in DOMAIN item
IsUndefinedItem(item) == "undefined" \in DOMAIN item

(* object[key], undefined when the object has no such property *)
Get(object, key) == IF key \in DOMAIN object THEN object[key] ELSE Undefined

TypeError == [threw |-> "TypeError"]
Threw(v) == "threw" \in DOMAIN v

----------------------------------------------------------------------------
(* DocumentParser *)

supportedFormats ==
    [pdf |-> {"application/pdf"},
     word |-> {"application/vnd.openxmlformats-officedocument.wordprocessingml.document",
               "application/msword"},
     image |-> {"image/jpeg", "image/png", "image/tiff", "image/bmp"},
     text |-> {"text/plain"}]

NoData == [none |-> TRUE]
IsNone(v) == "none" \in DOMAIN v

(* the dispatch with unknown media types decoded as plain text *)
parseDocumentTextFallback(file) ==
    LET failed(message) ==
            [success |-> FALSE, error |-> message, structuredData |-> NoData]
    IN  IF file.extraction = "throws" THEN failed("Failed to extract text")
        ELSE IF file.extraction = "empty"
        THEN failed("No text content could be extracted from the document")
        ELSE [success |-> TRUE, error |-> "", structuredData |-> file.data]

(* A file is [path, mimetype, extraction, data]: extraction is what the    *)
(* format's extractor does with the bytes ("throws", "empty" text, or      *)
(* "text"), data the fragment parseStructuredData derives from that text.  *)
(* The result is the ParsedDocument without its metadata.                  *)
parseDocument(file) ==
    LET failed(message) ==
            [success |-> FALSE, error |-> message, structuredData |-> NoData]
        extracted(message) ==
            IF file.extraction = "throws" THEN failed(message)
            ELSE IF file.extraction = "empty"
            THEN failed("No text content could be extracted from the document")
            ELSE [success |-> TRUE, error |-> "", structuredData |-> file.data]
    IN  IF file.mimetype \in supportedFormats.pdf
        THEN extracted("Failed to extract text from PDF")
        ELSE IF file.mimetype \in supportedFormats.word
        THEN extracted("Failed to extract text from Word document")
        ELSE IF file.mimetype \in supportedFormats.image
        THEN extracted("Failed to extract text from image using OCR")
        ELSE IF file.mimetype \in supportedFormats.text
        THEN extracted("Failed to extract text from text file")
        ELSE failed("Unsupported file format")

----------------------------------------------------------------------------
(* QuestionPreFillService: merging *)

ListFields ==
    <<"education", "experience", "skills", "certifications", "languages",
      "projects", "achievements">>

EmptyProfile ==
    [personalInfo |-> <<>>, education |-> <<>>, experience |-> <<>>,
     skills |-> <<>>, certifications |-> <<>>, languages |-> <<>>,
     projects |-> <<>>, achievements |-> <<>>, contactInfo |-> <<>>,
     objective |-> <<>>, summary |-> <<>>]

DuplicateKeys == <<"name", "title", "degree", "company">>

(* the comparison of the key properties without toLowerCase *)
SameKeyPropertiesCaseSensitive(existing, item) ==
    \E k \in 1..Len(DuplicateKeys) :
        LET key == DuplicateKeys[k]
        IN  /\ Truthy(Get(existing, key))
            /\ Truthy(Get(item, key))
            /\ Get(existing, key) = Get(item, key)

(* the callback of array.some in isDuplicate, for an object item *)
SameKeyProperties(existing, item) ==
    \E k \in 1..Len(DuplicateKeys) :
        LET key == DuplicateKeys[k]
        IN  /\ Truthy(Get(existing, key))
            /\ Truthy(Get(item, key))
            /\ toLowerCase(Get(existing, key)) = toLowerCase(Get(item, key))

(* reading a property of undefined throws: the callback throws on an       *)
(* undefined array element, and on an undefined item once an element has   *)
(* a truthy key property                                                   *)
CallbackThrows(existing, item) ==
    /\ ~TypeofString(existing)
    /\ \/ IsUndefinedItem(existing)
       \/ /\ IsUndefinedItem(item)
          /\ \E k \in 1..Len(DuplicateKeys) : Truthy(Get(existing, DuplicateKeys[k]))

CallbackTrue(existing, item) ==
    /\ ~TypeofString(existing)
    /\ ~CallbackThrows(existing, item)
    /\ SameKeyProperties(existing, item)

isDuplicateThrows(array, item) ==
    /\ ~TypeofString(item)
    /\ \E i \in 1..Len(array) :
          /\ CallbackThrows(array[i], item)
          /\ \A j \in 1..(i - 1) : ~CallbackTrue(array[j], item)

isDuplicate(array, item) ==
    IF TypeofString(item)
    THEN \E i \in 1..Len(array) : array[i] = item
    ELSE \E i \in 1..Len(array) : CallbackTrue(array[i], item)

(* data[field].forEach(item => ...) of combineDocumentData; the result   *)
(* tells whether isDuplicate threw, and the array otherwise                *)
RECURSIVE MergeItems(_, _, _)
MergeItems(array, items, i) ==
    IF i > Len(items) THEN [threw |-> FALSE, array |-> array]
    ELSE IF isDuplicateThrows(array, items[i]) THEN [threw |-> TRUE, array |-> <<>>]
    ELSE MergeItems(IF isDuplicate(array, items[i]) THEN array
                    ELSE Append(array, items[i]),
                    items, i + 1)

(* the key-wise merge in which a later non-empty value replaces the first *)
MergeInfoLastWins(combined, info) ==
    LET added == {key \in DOMAIN info : Truthy(info[key])}
    IN  [key \in (DOMAIN combined) \cup added |->
            IF key \in added THEN info[key] ELSE combined[key]]

(* first non-empty value per key of personalInfo / contactInfo *)
MergeInfo(combined, info) ==
    LET added == {key \in DOMAIN info :
                     /\ Truthy(info[key])
                     /\ ~(key \in DOMAIN combined /\ Truthy(combined[key]))}
    IN  [key \in (DOMAIN combined) \cup added |->
            IF key \in added THEN info[key] ELSE combined[key]]

(* the body of the for loop of combineDocumentData for one document *)
MergeDocument(combinedData, doc) ==
    IF ~doc.success \/ IsNone(doc.structuredData) THEN combinedData
    ELSE
      LET data == doc.structuredData
          lists == [k \in 1..Len(ListFields) |->
                      MergeItems(combinedData[ListFields[k]], data[ListFields[k]], 1)]
          list(field) ==
              lists[CHOOSE k \in 1..Len(ListFields) : ListFields[k] = field].array
      IN  IF \E k \in 1..Len(ListFields) : lists[k].threw THEN TypeError
          ELSE [personalInfo |-> MergeInfo(combinedData.personalInfo, data.personalInfo),
                education |-> list("education"),
                experience |-> list("experience"),
                skills |-> list("skills"),
                certifications |-> list("certifications"),
                languages |-> list("languages"),
                projects |-> list("projects"),
                achievements |-> list("achievements"),
                contactInfo |-> MergeInfo(combinedData.contactInfo, data.contactInfo),
                objective |-> IF Truthy(data.objective) /\ ~Truthy(combinedData.objective)
                              THEN data.objective ELSE combinedData.objective,
                summary |-> IF Truthy(data.summary) /\ ~Truthy(combinedData.summary)
                            THEN data.summary ELSE combinedData.summary]

RECURSIVE MergeDocuments(_, _, _)
MergeDocuments(combinedData, docs, i) ==
    IF i > Len(docs) \/ Threw(combinedData) THEN combinedData
    ELSE MergeDocuments(MergeDocument(combinedData, docs[i]), docs, i + 1)

combineDocumentData(docs) == MergeDocuments(EmptyProfile, docs, 1)

----------------------------------------------------------------------------
(* QuestionPreFillService: answers *)

(* a decimal confidence constant, given in tenths *)
Conf(tenths) == (tenths * ConfScale) \div 10

(* array.join(sep) of an array of strings; undefined joins as "" *)
RECURSIVE join(_, _)
join(array, sep) ==
    IF array = <<>> THEN <<>>
    ELSE LET first == IF TypeofString(array[1]) THEN array[1].str ELSE <<>>
         IN  IF Len(array) = 1 THEN first
             ELSE first \o sep \o join(Tail(array), sep)

Answer(type, answer, confidence, failed, fallback) ==
    [type |-> type, answer |-> answer, confidence |-> confidence,
     source |-> IF type = "auto-fill" THEN "document-parsing" ELSE "ai-generation",
     error |-> failed, fallback |-> fallback]

(* the skills and languages cases of generateAutoFillAnswer: entries is a  *)
(* non-empty array of strings (or undefined elements)                      *)
AutoFillFromStrings(question, entries) ==
    IF question.type = "multiple-choice"
    THEN LET options == question.options
             (* skill => question.options.some(option => ...) *)
             hit(entry) ==
                 /\ TypeofString(entry)
                 /\ \E k \in 1..Len(options) : MatchesEitherWay(options[k], entry.str)
             (* skill.toLowerCase() on undefined, once some option is tried *)
             throws(entry) == ~TypeofString(entry) /\ Len(options) > 0
             m == FindIndex(entries, hit)
             t == FindIndex(entries, throws)
         IN  IF t # 0 /\ (m = 0 \/ t < m)
             THEN Answer("auto-fill", Null, 0, TRUE, FALSE)
             ELSE IF m # 0 /\ Truthy(entries[m].str)
             THEN LET o == FindIndex(options,
                              LAMBDA option : MatchesEitherWay(option, entries[m].str))
                  IN  Answer("auto-fill", options[o], Conf(9), FALSE, FALSE)
             ELSE Answer("auto-fill", Null, 0, FALSE, FALSE)
    ELSE Answer("auto-fill", join(entries, <<", ">>), Conf(8), FALSE, FALSE)

(* the entry cases with the option confidence also on free-text answers *)
AutoFillFromEntryTextHigh(question, value, text) ==
    IF question.type = "multiple-choice"
    THEN LET o == FindIndex(question.options,
                      LAMBDA option : MatchesEitherWay(option, value))
         IN  IF o # 0 /\ Truthy(question.options[o])
             THEN Answer("auto-fill", question.options[o], Conf(9), FALSE, FALSE)
             ELSE Answer("auto-fill", Null, 0, FALSE, FALSE)
    ELSE Answer("auto-fill", text, Conf(9), FALSE, FALSE)

(* the entry cases answering with the free text when no option matches *)
AutoFillFromEntryNoMatchText(question, value, text) ==
    IF question.type = "multiple-choice"
    THEN LET o == FindIndex(question.options,
                      LAMBDA option : MatchesEitherWay(option, value))
         IN  IF o # 0 /\ Truthy(question.options[o])
             THEN Answer("auto-fill", question.options[o], Conf(9), FALSE, FALSE)
             ELSE Answer("auto-fill", text, Conf(8), FALSE, FALSE)
    ELSE Answer("auto-fill", text, Conf(8), FALSE, FALSE)

(* the education, experience and certifications cases: value is the key    *)
(* property of the first entry, text the answer of a free-text question    *)
AutoFillFromEntry(question, value, text) ==
    IF question.type = "multiple-choice"
    THEN LET o == FindIndex(question.options,
                      LAMBDA option : MatchesEitherWay(option, value))
         IN  IF o # 0 /\ Truthy(question.options[o])
             THEN Answer("auto-fill", question.options[o], Conf(9), FALSE, FALSE)
             ELSE Answer("auto-fill", Null, 0, FALSE, FALSE)
    ELSE Answer("auto-fill", text, Conf(8), FALSE, FALSE)

generateAutoFillAnswer(question, documentData, questionType) ==
    CASE questionType = "skills" /\ Len(documentData.skills) > 0 ->
            AutoFillFromStrings(question, documentData.skills)
      [] questionType = "education" /\ Len(documentData.education) > 0 ->
            LET education == documentData.education[1]
            IN  AutoFillFromEntry(question, education.degree,
                                  education.degree \o <<" in ">> \o education.field)
      [] questionType = "experience" /\ Len(documentData.experience) > 0 ->
            LET experience == documentData.experience[1]
            IN  AutoFillFromEntry(question, experience.title,
                                  experience.title \o <<" at ">> \o experience.company)
      [] questionType = "certifications" /\ Len(documentData.certifications) > 0 ->
            LET certification == documentData.certifications[1]
            IN  AutoFillFromEntry(question, certification.name, certification.name)
      [] questionType = "languages" /\ Len(documentData.languages) > 0 ->
            AutoFillFromStrings(question, documentData.languages)
      [] OTHER -> Answer("auto-fill", Null, 0, FALSE, FALSE)

(* the answer with the confidence of a generated answer on every path *)
generateAISuggestionsOneConfidence(question, documentData, questionType, outcome) ==
    LET aiResult == generateDirectAnswer(question.text, questionType, documentData,
                                         question.options, outcome)
    IN  Answer("ai-suggestions", aiResult.answer, Conf(7), FALSE, aiResult.fallback)

generateAISuggestions(question, documentData, questionType, outcome) ==
    LET aiResult == generateDirectAnswer(question.text, questionType, documentData,
                                         question.options, outcome)
    IN  Answer("ai-suggestions", aiResult.answer,
               IF aiResult.success THEN Conf(7) ELSE Conf(3),
               FALSE, aiResult.fallback)

----------------------------------------------------------------------------
(* Inputs of the request model *)

Fragment(personalInfo, education, experience, skills, languages, objective) ==
    [personalInfo |-> personalInfo, education |-> education,
     experience |-> experience, skills |-> skills, certifications |-> <<>>,
     languages |-> languages, projects |-> <<>>, achievements |-> <<>>,
     contactInfo |-> <<>>, objective |-> objective, summary |-> objective]

(* a CV with education, skills and languages sections; extractSkills       *)
(* pushes match[1] of a pattern without capture group, i.e. undefined      *)
FragCV ==
    Fragment([name |-> <<"Ann">>],
             <<[degree |-> <<"BSc">>, field |-> <<"Math">>]>>, <<>>,
             <<UndefinedItem>>, <<StrItem(<<"French">>)>>, <<"objective">>)

(* an experience letter that also names tools *)
FragLetter ==
    Fragment([name |-> <<"Bob">>], <<>>,
             <<[title |-> <<"Dev">>, company |-> <<"Aws">>]>>,
             <<UndefinedItem>>, <<>>, <<>>)

(* text without any recognisable section *)
FragPlain == Fragment(<<>>, <<>>, <<>>, <<>>, <<>>, <<>>)

FileKind(mimetype, extraction, data) ==
    [mimetype |-> mimetype, extraction |-> extraction, data |-> data]

FilePool ==
    {FileKind("application/pdf", "text", FragCV),
     FileKind("application/msword", "text", FragLetter),
     FileKind("text/plain", "text", FragPlain),
     FileKind("image/png", "text", FragLetter),
     FileKind("image/jpeg", "throws", FragPlain),
     FileKind("application/pdf", "empty", FragPlain),
     FileKind("application/zip", "text", FragCV)}

QuestionKind(text, type, options) ==
    [text |-> text, type |-> type, options |-> options]

QuestionPool ==
    {QuestionKind(<<"your", "Skill">>, "multiple-choice", <<<<"Java">>, <<"Py">>>>),
     QuestionKind(<<"language">>, "multiple-choice", <<<<"german">>, <<"french">>>>),
     QuestionKind(<<"education">>, "text", <<>>),
     QuestionKind(<<"degree">>, "multiple-choice", <<<<"MSc">>, <<"PhD">>>>),
     QuestionKind(<<"goal">>, "yes/no", <<>>),
     QuestionKind(<<"attach", "file">>, "upload", <<>>)}

(* sequences of length 0..n over a set *)
SeqsUpTo(S, n) == UNION {[1..k -> S] : k \in 0..n}

(* multer stores upload i under a path of its own *)
WithPaths(kinds) ==
    [i \in 1..Len(kinds) |->
        [path |-> i, mimetype |-> kinds[i].mimetype,
         extraction |-> kinds[i].extraction, data |-> kinds[i].data]]

(* Question documents have distinct _id values *)
WithIds(kinds) ==
    [i \in 1..Len(kinds) |->
        [_id |-> i, text |-> kinds[i].text, type |-> kinds[i].type,
         options |-> kinds[i].options]]

(* the texts the collaborator answers with in the request model *)
ResponseTexts == {<<"french">>, <<"Maybe">>}

Outcomes ==
    {Outcome("noKey", <<>>), Outcome("raise", <<>>), Outcome("nullContent", <<>>)}
    \cup {Outcome("text", t) : t \in ResponseTexts}

NoCall == [fn |-> "none"]

----------------------------------------------------------------------------
(* preFillQuestions: one request *)

Paths(files) == {files[i].path : i \in 1..Len(files)}

(* no other request is being handled; the collections they use are empty *)
ServerIdle ==
    /\ requests = <<>>
    /\ users = <<>>
    /\ roadmaps = <<>>
    /\ now = 0
    /\ history = <<>>

Init ==
    /\ uploadedFiles \in {WithPaths(k) : k \in SeqsUpTo(FilePool, MaxFiles)}
    /\ questions \in {WithIds(k) : k \in SeqsUpTo(QuestionPool, MaxQuestions)}
    /\ disk = Paths(uploadedFiles)
    /\ pc = "findUser"
    /\ processingLog = "none"
    /\ parsedDocuments = <<>>
    /\ combinedDocumentData = NoData
    /\ questionMappings = NoData
    /\ preFilledAnswers = <<>>
    /\ genIndex = 0
    /\ aiCalls = {}
    /\ aiOutcomes = <<>>
    /\ preFillResults = NoData
    /\ response = 0
    /\ ServerIdle
    /\ fnCall = NoCall
    /\ fnResult = NoData

(* next(createError(status, ...)) or res.status(status).json(...) *)
Respond(status) == response' = status /\ pc' = "done"

(* User.findById, the role check and the check of req.files *)
FindUser ==
    /\ pc = "findUser"
    /\ \/ pc' = "catch" /\ UNCHANGED response
       \/ Respond(403)
       \/ IF Len(uploadedFiles) = 0 THEN Respond(400)
          ELSE pc' = "findQuestions" /\ UNCHANGED response
    /\ UNCHANGED <<serverVars, uploadedFiles, questions, disk, processingLog, parsedDocuments,
                   combinedDocumentData, questionMappings, preFilledAnswers,
                   genIndex, aiCalls, aiOutcomes, preFillResults, fnCall, fnResult>>

(* Question.find({status: "active"}) *)
FindQuestions ==
    /\ pc = "findQuestions"
    /\ \/ pc' = "catch" /\ UNCHANGED response
       \/ IF Len(questions) = 0 THEN Respond(404)
          ELSE pc' = "saveLog" /\ UNCHANGED response
    /\ UNCHANGED <<serverVars, uploadedFiles, questions, disk, processingLog, parsedDocuments,
                   combinedDocumentData, questionMappings, preFilledAnswers,
                   genIndex, aiCalls, aiOutcomes, preFillResults, fnCall, fnResult>>

(* new AIProcessingLog({... status: "processing"}) and its first save *)
SaveLog ==
    /\ pc = "saveLog"
    /\ \/ pc' = "catch" /\ UNCHANGED processingLog
       \/ pc' = "parse" /\ processingLog' = "processing"
    /\ UNCHANGED <<serverVars, uploadedFiles, questions, disk, parsedDocuments,
                   combinedDocumentData, questionMappings, preFilledAnswers,
                   genIndex, aiCalls, aiOutcomes, preFillResults, response,
                   fnCall, fnResult>>

(* parseAllDocuments: one iteration of its for loop *)
parseAllDocumentsStep(docs, file) ==
    Append(docs, [success |-> parseDocument(file).success,
                  error |-> parseDocument(file).error,
                  structuredData |-> parseDocument(file).structuredData,
                  originalFile |-> file.path])

ParseDocument ==
    /\ pc = "parse"
    /\ Len(parsedDocuments) < Len(uploadedFiles)
    /\ parsedDocuments' =
          parseAllDocumentsStep(parsedDocuments,
                                uploadedFiles[Len(parsedDocuments) + 1])
    /\ UNCHANGED <<serverVars, uploadedFiles, questions, disk, pc, processingLog,
                   combinedDocumentData, questionMappings, preFilledAnswers,
                   genIndex, aiCalls, aiOutcomes, preFillResults, response,
                   fnCall, fnResult>>

(* the value processDocumentsAndPreFill returns from its catch block *)
FailedResults == [success |-> FALSE]
SuccessResults == [success |-> TRUE]

(* step 2 of processDocumentsAndPreFill *)
CombineDocumentData ==
    /\ pc = "parse"
    /\ Len(parsedDocuments) = Len(uploadedFiles)
    /\ LET combined == combineDocumentData(parsedDocuments)
       IN  IF Threw(combined)
           THEN /\ preFillResults' = FailedResults
                /\ pc' = "returned"
                /\ UNCHANGED combinedDocumentData
           ELSE /\ combinedDocumentData' = combined
                /\ pc' = "analyze"
                /\ UNCHANGED preFillResults
    /\ UNCHANGED <<serverVars, uploadedFiles, questions, disk, processingLog, parsedDocuments,
                   questionMappings, preFilledAnswers, genIndex, aiCalls,
                   aiOutcomes, response, fnCall, fnResult>>

(* step 3 of processDocumentsAndPreFill *)
AnalyzeDocumentMapping ==
    /\ pc = "analyze"
    /\ questionMappings' = analyzeDocumentMapping(combinedDocumentData, questions)
    /\ genIndex' = 1
    /\ pc' = "generate"
    /\ UNCHANGED <<serverVars, uploadedFiles, questions, disk, processingLog, parsedDocuments,
                   combinedDocumentData, preFilledAnswers, aiCalls, aiOutcomes,
                   preFillResults, response, fnCall, fnResult>>

(* questions.find(q => q._id.toString() === mapping.questionId.toString()) *)
findQuestion(qs, questionId) ==
    FindIndex(qs, LAMBDA q : q._id = questionId)

(* generatePreFilledAnswers: one iteration of the auto-fill loop *)
GenerateAutoFill ==
    /\ pc = "generate"
    /\ genIndex <= Len(questionMappings.autoFill)
    /\ LET mapping == questionMappings.autoFill[genIndex]
           q == findQuestion(questions, mapping.questionId)
       IN  preFilledAnswers' =
              IF q = 0 THEN preFilledAnswers
              ELSE (mapping.questionId :>
                      generateAutoFillAnswer(questions[q], combinedDocumentData,
                                             mapping.questionType))
                   @@ preFilledAnswers
    /\ genIndex' = genIndex + 1
    /\ UNCHANGED <<serverVars, uploadedFiles, questions, disk, pc, processingLog,
                   parsedDocuments, combinedDocumentData, questionMappings,
                   aiCalls, aiOutcomes, preFillResults, response, fnCall, fnResult>>

(* the AI-suggestion loop with a collaborator failure left uncaught: it   *)
(* reaches the catch block of processDocumentsAndPreFill                   *)
GenerateAISuggestionUncaught ==
    /\ pc = "generate"
    /\ genIndex > Len(questionMappings.autoFill)
    /\ genIndex <= Len(questionMappings.autoFill) + Len(questionMappings.aiSuggestions)
    /\ LET mapping == questionMappings.aiSuggestions[
                          genIndex - Len(questionMappings.autoFill)]
           q == findQuestion(questions, mapping.questionId)
       IN  \E outcome \in Outcomes :
              /\ aiCalls' = IF InvokesCollaborator(outcome)
                            THEN aiCalls \cup {mapping.questionId}
                            ELSE aiCalls
              /\ aiOutcomes' = (mapping.questionId :> outcome) @@ aiOutcomes
              /\ IF outcome.kind = "text"
                 THEN /\ preFilledAnswers' =
                            (mapping.questionId :>
                               generateAISuggestions(questions[q], combinedDocumentData,
                                                     mapping.questionType, outcome))
                            @@ preFilledAnswers
                      /\ genIndex' = genIndex + 1
                      /\ UNCHANGED <<pc, preFillResults>>
                 ELSE /\ preFillResults' = FailedResults
                      /\ pc' = "returned"
                      /\ UNCHANGED <<preFilledAnswers, genIndex>>
    /\ UNCHANGED <<serverVars, uploadedFiles, questions, disk, processingLog,
                   parsedDocuments, combinedDocumentData, questionMappings,
                   response, fnCall, fnResult>>

(* generatePreFilledAnswers: one iteration of the AI-suggestion loop *)
GenerateAISuggestion ==
    /\ pc = "generate"
    /\ genIndex > Len(questionMappings.autoFill)
    /\ genIndex <= Len(questionMappings.autoFill) + Len(questionMappings.aiSuggestions)
    /\ LET mapping == questionMappings.aiSuggestions[
                          genIndex - Len(questionMappings.autoFill)]
           q == findQuestion(questions, mapping.questionId)
       IN  IF q = 0 THEN UNCHANGED <<preFilledAnswers, aiCalls, aiOutcomes>>
           ELSE \E outcome \in Outcomes :
                  /\ preFilledAnswers' =
                        (mapping.questionId :>
                           generateAISuggestions(questions[q], combinedDocumentData,
                                                 mapping.questionType, outcome))
                        @@ preFilledAnswers
                  /\ aiCalls' = IF InvokesCollaborator(outcome)
                                THEN aiCalls \cup {mapping.questionId}
                                ELSE aiCalls
                  /\ aiOutcomes' = (mapping.questionId :> outcome) @@ aiOutcomes
    /\ genIndex' = genIndex + 1
    /\ UNCHANGED <<serverVars, uploadedFiles, questions, disk, pc, processingLog,
                   parsedDocuments, combinedDocumentData, questionMappings,
                   preFillResults, response, fnCall, fnResult>>

(* processDocumentsAndPreFill returns its success object *)
ReturnResults ==
    /\ pc = "generate"
    /\ genIndex > Len(questionMappings.autoFill) + Len(questionMappings.aiSuggestions)
    /\ preFillResults' = SuccessResults
    /\ pc' = "returned"
    /\ UNCHANGED <<serverVars, uploadedFiles, questions, disk, processingLog, parsedDocuments,
                   combinedDocumentData, questionMappings, preFilledAnswers,
                   genIndex, aiCalls, aiOutcomes, response, fnCall, fnResult>>

(* cleanupUploadedFiles: every listed path that exists is unlinked *)
cleanupUploadedFiles(files, filePaths) == files \ filePaths

(* the branch if (!preFillResults.success) of preFillQuestions *)
HandleFailure ==
    /\ pc = "returned"
    /\ ~preFillResults.success
    /\ \/ pc' = "catch" /\ UNCHANGED <<processingLog, response>>
       \/ processingLog' = "failed" /\ Respond(500)
    /\ UNCHANGED <<serverVars, uploadedFiles, questions, disk, parsedDocuments,
                   combinedDocumentData, questionMappings, preFilledAnswers,
                   genIndex, aiCalls, aiOutcomes, preFillResults, fnCall, fnResult>>

(* the success path of preFillQuestions: the log is completed (a failing   *)
(* save is swallowed), the uploads are cleaned up, the results are sent    *)
HandleSuccess ==
    /\ pc = "returned"
    /\ preFillResults.success
    /\ \/ processingLog' = "completed"
       \/ UNCHANGED processingLog
    /\ disk' = cleanupUploadedFiles(disk, Paths(uploadedFiles))
    /\ Respond(200)
    /\ UNCHANGED <<serverVars, uploadedFiles, questions, parsedDocuments,
                   combinedDocumentData, questionMappings, preFilledAnswers,
                   genIndex, aiCalls, aiOutcomes, preFillResults, fnCall, fnResult>>

(* the catch block of preFillQuestions *)
CatchError ==
    /\ pc = "catch"
    /\ disk' = IF Len(uploadedFiles) > 0
               THEN cleanupUploadedFiles(disk, Paths(uploadedFiles))
               ELSE disk
    /\ Respond(500)
    /\ UNCHANGED <<serverVars, uploadedFiles, questions, processingLog, parsedDocuments,
                   combinedDocumentData, questionMappings, preFilledAnswers,
                   genIndex, aiCalls, aiOutcomes, preFillResults, fnCall, fnResult>>

Next ==
    \/ FindUser
    \/ FindQuestions
    \/ SaveLog
    \/ ParseDocument
    \/ CombineDocumentData
    \/ AnalyzeDocumentMapping
    \/ GenerateAutoFill
    \/ GenerateAISuggestion
    \/ ReturnResults
    \/ HandleFailure
    \/ HandleSuccess
    \/ CatchError

Spec == Init /\ [][Next]_vars

----------------------------------------------------------------------------
(* Single calls of the answer generators, on a wider range of arguments    *)
(* than the documents of the request model produce                         *)

(* profile values; the parser yields non-empty strings *)
ValueStrings == {<<"Java">>, <<"java", "Script">>, <<"Py">>}

(* option strings; the Question schema and addQuestion accept any string *)
OptionStrings == ValueStrings \cup {<<>>}

OptionLists == SeqsUpTo(OptionStrings, MaxOptions)

(* raw completions of the collaborator *)
Completions ==
    {<<>>, <<SP>>, <<"java">>, <<QUOTE, "Java", QUOTE>>, <<"Py", NL, "Java">>,
     <<NL, "py", SP>>, <<"Maybe">>, <<"I", "like", "Java", "Script">>}

AnswerOutcomes ==
    {Outcome("noKey", <<>>), Outcome("raise", <<>>), Outcome("nullContent", <<>>)}
    \cup {Outcome("text", t) : t \in Completions}

ProfileWith(field, entries) == [EmptyProfile EXCEPT ![field] = entries]

(* arrays of strings, as extractLanguages builds them *)
StringEntries == SeqsUpTo({StrItem(v) : v \in ValueStrings}, MaxEntries)

ObjectEntries(key, other) ==
    SeqsUpTo({[k \in {key, other} |-> IF k = key THEN v ELSE <<"Acme">>] :
                 v \in ValueStrings}, MaxEntries)

(* profiles with entries in one list field *)
AnswerProfiles ==
    {ProfileWith("skills", e) : e \in StringEntries \cup {<<UndefinedItem>>}}
    \cup {ProfileWith("languages", e) : e \in StringEntries}
    \cup {ProfileWith("education", e) : e \in ObjectEntries("degree", "field")}
    \cup {ProfileWith("experience", e) : e \in ObjectEntries("title", "company")}
    \cup {ProfileWith("certifications", e) : e \in ObjectEntries("name", "issuer")}

AnswerQuestions ==
    {[_id |-> 1, text |-> <<t>>, type |-> ty, options |-> o] :
        t \in {"skill", "education", "experience", "certification", "language",
               "goal"},
        ty \in {"multiple-choice", "text"},
        o \in OptionLists}

Call(fn, question, documentData, outcome) ==
    [fn |-> fn, question |-> question, documentData |-> documentData,
     questionType |-> determineQuestionType(question.text), outcome |-> outcome]

(* generatePreFilledAnswers calls generateAutoFillAnswer for the questions *)
(* of the auto-fill bucket and generateAISuggestions for those of the      *)
(* AI-suggestion bucket, with the type the classifier gave them            *)
AutoFillCalls(q) ==
    {Call("generateAutoFillAnswer", q, d, Outcome("none", <<>>)) :
        d \in {p \in AnswerProfiles :
                  hasDirectMatch(p, determineQuestionType(q.text))}}

AISuggestionCalls(q) ==
    {Call("generateAISuggestions", q, EmptyProfile, o) : o \in AnswerOutcomes}

AnswerCalls(answerQuestions) ==
    UNION {AutoFillCalls(q) \cup AISuggestionCalls(q) : q \in answerQuestions}

InitAnswer ==
    /\ uploadedFiles = <<>>
    /\ questions = <<>>
    /\ disk = {}
    /\ pc = "idle"
    /\ processingLog = "none"
    /\ parsedDocuments = <<>>
    /\ combinedDocumentData = NoData
    /\ questionMappings = NoData
    /\ preFilledAnswers = <<>>
    /\ genIndex = 0
    /\ aiCalls = {}
    /\ aiOutcomes = <<>>
    /\ preFillResults = NoData
    /\ response = 0
    /\ ServerIdle
    /\ fnCall \in AnswerCalls(AnswerQuestions)
    /\ fnResult = NoData

CallGenerateAutoFillAnswer ==
    /\ fnCall.fn = "generateAutoFillAnswer"
    /\ IsNone(fnResult)
    /\ fnResult' = generateAutoFillAnswer(fnCall.question, fnCall.documentData,
                                          fnCall.questionType)
    /\ UNCHANGED <<serverVars, pipelineVars, fnCall>>

CallGenerateAISuggestions ==
    /\ fnCall.fn = "generateAISuggestions"
    /\ IsNone(fnResult)
    /\ fnResult' = generateAISuggestions(fnCall.question, fnCall.documentData,
                                         fnCall.questionType, fnCall.outcome)
    /\ UNCHANGED <<serverVars, pipelineVars, fnCall>>

NextAnswer ==
    \/ CallGenerateAutoFillAnswer
    \/ CallGenerateAISuggestions

SpecAnswer == InitAnswer /\ [][NextAnswer]_vars

----------------------------------------------------------------------------
(* combineDocumentData followed by analyzeDocumentMapping, on documents    *)
(* with several entries per list field                                     *)

MaxFragments == 3

GoodDoc(fragment) ==
    [success |-> TRUE, error |-> "", structuredData |-> fragment]

FailedDoc ==
    [success |-> FALSE, error |-> "Unsupported file format",
     structuredData |-> NoData]

(* experience entries: two positions at one company, one title at two *)
DevAtAws == [title |-> <<"Dev">>, company |-> <<"Aws">>]
LeadAtIbm == [title |-> <<"Lead">>, company |-> <<"Ibm">>]
LeadAtAws == [title |-> <<"Lead">>, company |-> <<"Aws">>]
DevAtAwsLower == [title |-> <<"dev">>, company |-> <<"aws">>]

(* a CV; its skills are strings, as the entity extractor documents its     *)
(* result (FragCV has the array extractSkills builds)                      *)
FragAnn ==
    [Fragment([name |-> <<"Ann">>],
              <<[degree |-> <<"BSc">>, field |-> <<"Math">>]>>,
              <<DevAtAws, LeadAtIbm>>,
              <<StrItem(<<"Java">>)>>,
              <<StrItem(<<"French">>), StrItem(<<"German">>)>>,
              <<"objective", "Ann">>)
     EXCEPT !.contactInfo = [github |-> <<"github", "Ann">>]]

FragBob ==
    [Fragment([name |-> <<"Bob">>, email |-> <<"bob@mail">>], <<>>,
              <<LeadAtAws>>, <<>>,
              <<StrItem(<<"French">>), StrItem(<<"English">>)>>,
              <<"objective", "Bob">>)
     EXCEPT !.contactInfo = [github |-> <<"github", "Bob">>,
                             website |-> <<"site", "Bob">>],
            !.certifications = <<[name |-> <<"Aws">>, issuer |-> <<>>]>>]

(* a supporting document: no objective, entries written in lower case *)
FragLower ==
    [Fragment([phone |-> <<"555">>],
              <<[degree |-> <<"bsc">>, field |-> <<"Math">>]>>,
              <<DevAtAwsLower>>,
              <<StrItem(<<"java">>)>>,
              <<StrItem(<<"Hindi">>)>>,
              <<>>)
     EXCEPT !.contactInfo = [website |-> <<"site", "Lower">>]]

MergeDocPool ==
    {GoodDoc(FragAnn), GoodDoc(FragBob), GoodDoc(FragLower), GoodDoc(FragCV),
     GoodDoc(FragPlain), FailedDoc}

(* the active questions: one per profile list, the third a multiple-choice *)
(* question stored without options                                         *)
MergeQuestions ==
    WithIds(<<QuestionKind(<<"your", "Skill">>, "multiple-choice",
                           <<<<"Java">>, <<"Py">>>>),
              QuestionKind(<<"language">>, "text", <<>>),
              QuestionKind(<<"work">>, "multiple-choice", <<>>),
              QuestionKind(<<"education">>, "text", <<>>),
              QuestionKind(<<"certificate">>, "yes/no", <<>>)>>)

InitMerge ==
    /\ uploadedFiles = <<>>
    /\ questions = MergeQuestions
    /\ disk = {}
    /\ pc = "combine"
    /\ processingLog = "none"
    /\ parsedDocuments \in SeqsUpTo(MergeDocPool, MaxFragments)
    /\ combinedDocumentData = NoData
    /\ questionMappings = NoData
    /\ preFilledAnswers = <<>>
    /\ genIndex = 0
    /\ aiCalls = {}
    /\ aiOutcomes = <<>>
    /\ preFillResults = NoData
    /\ response = 0
    /\ ServerIdle
    /\ fnCall = [fn |-> "combineDocumentData"]
    /\ fnResult = [merged |-> 0, combinedData |-> EmptyProfile]

(* one iteration of for (const doc of parsedDocuments); a TypeError of     *)
(* isDuplicate leaves combineDocumentData and reaches the catch block of   *)
(* processDocumentsAndPreFill                                              *)
MergeNextDocument ==
    /\ pc = "combine"
    /\ fnResult.merged < Len(parsedDocuments)
    /\ LET combinedData ==
               MergeDocument(fnResult.combinedData,
                             parsedDocuments[fnResult.merged + 1])
       IN  /\ fnResult' = [merged |-> fnResult.merged + 1,
                           combinedData |-> combinedData]
           /\ IF Threw(combinedData)
              THEN pc' = "returned" /\ preFillResults' = FailedResults
              ELSE UNCHANGED <<pc, preFillResults>>
    /\ UNCHANGED <<serverVars, uploadedFiles, questions, disk, processingLog, parsedDocuments,
                   combinedDocumentData, questionMappings, preFilledAnswers,
                   genIndex, aiCalls, aiOutcomes, response, fnCall>>

(* return combinedData, assigned to combinedDocumentData by the caller *)
ReturnCombinedData ==
    /\ pc = "combine"
    /\ fnResult.merged = Len(parsedDocuments)
    /\ combinedDocumentData' = fnResult.combinedData
    /\ pc' = "analyze"
    /\ UNCHANGED <<serverVars, uploadedFiles, questions, disk, processingLog, parsedDocuments,
                   questionMappings, preFilledAnswers, genIndex, aiCalls,
                   aiOutcomes, preFillResults, response, fnCall, fnResult>>

NextMerge ==
    \/ MergeNextDocument
    \/ ReturnCombinedData
    \/ AnalyzeDocumentMapping

SpecMerge == InitMerge /\ [][NextMerge]_vars

----------------------------------------------------------------------------
(* Several preFillQuestions requests of one user, handled concurrently:    *)
(* every await of a handler lets the other requests run                    *)

MaxRequests == 4

(* the single-request variables are not used by the concurrent models *)
PipelineIdle ==
    /\ uploadedFiles = <<>>
    /\ disk = {}
    /\ pc = "idle"
    /\ processingLog = "none"
    /\ parsedDocuments = <<>>
    /\ combinedDocumentData = NoData
    /\ questionMappings = NoData
    /\ preFilledAnswers = <<>>
    /\ genIndex = 0
    /\ aiCalls = {}
    /\ aiOutcomes = <<>>
    /\ preFillResults = NoData
    /\ response = 0
    /\ fnCall = NoCall
    /\ fnResult = NoData

(* the active questions every request reads *)
LimitQuestions ==
    WithIds(<<QuestionKind(<<"education">>, "text", <<>>),
              QuestionKind(<<"goal">>, "yes/no", <<>>)>>)

(* the merged profile of the documents one request uploads *)
LimitProfiles ==
    {combineDocumentData(<<GoodDoc(FragCV)>>),
     combineDocumentData(<<GoodDoc(FragPlain)>>)}

InitLimit ==
    /\ PipelineIdle
    /\ questions = LimitQuestions
    /\ requests = <<>>
    /\ users = <<>>
    /\ roadmaps = <<>>
    /\ now = 0
    /\ history = <<>>

(* up to step 2 of processDocumentsAndPreFill: the request of user ann is  *)
(* accepted and its documents are parsed and merged                        *)
AcceptPreFill ==
    /\ Len(requests) < MaxRequests
    /\ \E documentData \in LimitProfiles :
          requests' = Append(requests,
                             [fn |-> "preFillQuestions", user |-> "ann",
                              pc |-> "analyze", documentData |-> documentData,
                              questionMappings |-> NoData, genIndex |-> 0,
                              answered |-> {}])
    /\ UNCHANGED <<pipelineVars, fnCall, fnResult, users, roadmaps, now, history>>

(* step 3 of processDocumentsAndPreFill *)
AnalyzeRequest(r) ==
    /\ requests[r].fn = "preFillQuestions"
    /\ requests[r].pc = "analyze"
    /\ requests' =
          [requests EXCEPT
             ![r].questionMappings =
                 analyzeDocumentMapping(requests[r].documentData, questions),
             ![r].genIndex = 1,
             ![r].pc = "generate"]
    /\ UNCHANGED <<pipelineVars, fnCall, fnResult, users, roadmaps, now, history>>

(* generatePreFilledAnswers: one iteration of the auto-fill loop *)
AutoFillRequest(r) ==
    /\ requests[r].fn = "preFillQuestions"
    /\ requests[r].pc = "generate"
    /\ requests[r].genIndex <= Len(requests[r].questionMappings.autoFill)
    /\ LET mapping == requests[r].questionMappings.autoFill[requests[r].genIndex]
       IN  requests' =
              [requests EXCEPT
                 ![r].answered = @ \cup {mapping.questionId},
                 ![r].genIndex = @ + 1]
    /\ UNCHANGED <<pipelineVars, fnCall, fnResult, users, roadmaps, now, history>>

(* the mapping of the AI-suggestion loop that request r has reached *)
SuggestionMapping(r) ==
    requests[r].questionMappings.aiSuggestions[
        requests[r].genIndex - Len(requests[r].questionMappings.autoFill)]

AtSuggestion(r) ==
    /\ requests[r].genIndex > Len(requests[r].questionMappings.autoFill)
    /\ requests[r].genIndex <=
          Len(requests[r].questionMappings.autoFill)
          + Len(requests[r].questionMappings.aiSuggestions)

(* generateAISuggestions up to await openai.chat.completions.create: the   *)
(* call is sent and the handler waits; without an API key the fallback     *)
(* answer is stored at once                                                *)
CallOpenAI(r) ==
    /\ requests[r].fn = "preFillQuestions"
    /\ requests[r].pc = "generate"
    /\ AtSuggestion(r)
    /\ \E outcome \in Outcomes :
          IF InvokesCollaborator(outcome)
          THEN requests' = [requests EXCEPT ![r].pc = "openai"]
          ELSE requests' =
                  [requests EXCEPT
                     ![r].answered = @ \cup {SuggestionMapping(r).questionId},
                     ![r].genIndex = @ + 1]
    /\ UNCHANGED <<pipelineVars, fnCall, fnResult, users, roadmaps, now, history>>

(* the collaborator answers or fails; either way an answer is stored *)
OpenAIReturns(r) ==
    /\ requests[r].fn = "preFillQuestions"
    /\ requests[r].pc = "openai"
    /\ requests' =
          [requests EXCEPT
             ![r].answered = @ \cup {SuggestionMapping(r).questionId},
             ![r].genIndex = @ + 1,
             ![r].pc = "generate"]
    /\ UNCHANGED <<pipelineVars, fnCall, fnResult, users, roadmaps, now, history>>

(* return preFilledAnswers *)
ReturnAnswers(r) ==
    /\ requests[r].fn = "preFillQuestions"
    /\ requests[r].pc = "generate"
    /\ requests[r].genIndex >
          Len(requests[r].questionMappings.autoFill)
          + Len(requests[r].questionMappings.aiSuggestions)
    /\ requests' = [requests EXCEPT ![r].pc = "returned"]
    /\ UNCHANGED <<pipelineVars, fnCall, fnResult, users, roadmaps, now, history>>

NextLimit ==
    \/ AcceptPreFill
    \/ \E r \in DOMAIN requests : AnalyzeRequest(r)
    \/ \E r \in DOMAIN requests : AutoFillRequest(r)
    \/ \E r \in DOMAIN requests : CallOpenAI(r)
    \/ \E r \in DOMAIN requests : OpenAIReturns(r)
    \/ \E r \in DOMAIN requests : ReturnAnswers(r)

SpecLimit == InitLimit /\ [][NextLimit]_vars

----------------------------------------------------------------------------
(* Single calls of determineQuestionType on texts that name several        *)
(* keyword groups                                                          *)

MaxWords == 3

QuestionWords ==
    {"Skill", "technology", "degree", "work", "career", "goal",
     "certificate", "language", "please"}

InitType ==
    /\ uploadedFiles = <<>>
    /\ disk = {}
    /\ pc = "idle"
    /\ processingLog = "none"
    /\ parsedDocuments = <<>>
    /\ combinedDocumentData = NoData
    /\ questionMappings = NoData
    /\ preFilledAnswers = <<>>
    /\ genIndex = 0
    /\ aiCalls = {}
    /\ aiOutcomes = <<>>
    /\ preFillResults = NoData
    /\ response = 0
    /\ ServerIdle
    /\ questions = <<>>
    /\ fnCall \in {[fn |-> "determineQuestionType", questionText |-> t] :
                      t \in SeqsUpTo(QuestionWords, MaxWords)}
    /\ fnResult = NoData

CallDetermineQuestionType ==
    /\ fnCall.fn = "determineQuestionType"
    /\ IsNone(fnResult)
    /\ fnResult' = [questionType |-> determineQuestionType(fnCall.questionText)]
    /\ UNCHANGED <<serverVars, pipelineVars, fnCall>>

NextType == CallDetermineQuestionType

SpecType == InitType /\ [][NextType]_vars

----------------------------------------------------------------------------
(* DocumentParser: the section finder and the skills extractor, on texts   *)
(* of several lines                                                        *)

MaxLines == 4

(* text.split('\n') *)
RECURSIVE split(_)
split(text) ==
    LET k == FindIndex(text, LAMBDA t : t = NL)
    IN  IF k = 0 THEN <<text>>
        ELSE <<SubSeq(text, 1, k - 1)>> \o split(SubSeq(text, k + 1, Len(text)))

(* lines.join('\n') *)
RECURSIVE joinLines(_)
joinLines(lines) ==
    IF lines = <<>> THEN <<>>
    ELSE IF Len(lines) = 1 THEN lines[1]
    ELSE lines[1] \o <<NL>> \o joinLines(Tail(lines))

educationKeywords ==
    {"education", "university", "college", "degree", "bachelor", "master",
     "phd", "diploma", "certificate"}
skillKeywords == {"skills", "technical", "programming", "software", "tools"}
languageKeywords == {"languages", "language", "fluent", "native"}

nextSectionKeywords ==
    {"education", "experience", "skills", "projects", "achievements",
     "certifications"}

(* keywords.some(keyword => line.includes(keyword)) on the lower-cased line *)
LineHasKeyword(line, keywords) ==
    \E keyword \in keywords : includes(toLowerCase(line), <<keyword>>)

findSection(text, keywords) ==
    LET lines == split(text)
        sectionStart == FindIndex(lines, LAMBDA line : LineHasKeyword(line, keywords))
        later == {i \in (sectionStart + 1)..Len(lines) :
                     LineHasKeyword(lines[i], nextSectionKeywords)}
        sectionEnd == IF later = {} THEN Len(lines) + 1
                      ELSE CHOOSE i \in later : \A j \in later : i <= j
    IN  IF sectionStart = 0 THEN Null
        ELSE joinLines(SubSeq(lines, sectionStart, sectionEnd - 1))

(* the four regular expressions of extractSkills: alternations of literal  *)
(* terms, matched ignoring case; none has a capture group                  *)
skillPatterns ==
    <<{"javascript", "python", "java", "c++", "c#", "php", "ruby", "go",
       "swift", "kotlin"},
      {"react", "angular", "vue", "node.js", "express", "django", "flask",
       "spring", "laravel"},
      {"html", "css", "sql", "mongodb", "postgresql", "mysql", "redis"},
      {"aws", "azure", "docker", "kubernetes", "git", "linux", "windows"}>>

(* the successive results of pattern.exec(section): the matched terms in   *)
(* the order they occur                                                    *)
execAll(pattern, section) ==
    SelectSeq(section, LAMBDA t : toLowerCase(<<t>>)[1] \in pattern)

(* match[n] of a match of a pattern without capture groups *)
MatchGroup(match, n) == IF n = 0 THEN StrItem(<<match>>) ELSE UndefinedItem

(* skills.includes(item) *)
ArrayIncludes(array, item) == \E i \in 1..Len(array) : array[i] = item

(* the while loop of one pattern: skills.push(match[1]) unless included *)
RECURSIVE PushMatches(_, _)
PushMatches(skills, matches) ==
    IF matches = <<>> THEN skills
    ELSE LET item == MatchGroup(Head(matches), 1)
         IN  PushMatches(IF ArrayIncludes(skills, item) THEN skills
                         ELSE Append(skills, item),
                         Tail(matches))

RECURSIVE ForEachPattern(_, _, _)
ForEachPattern(skills, section, p) ==
    IF p > Len(skillPatterns) THEN skills
    ELSE ForEachPattern(PushMatches(skills, execAll(skillPatterns[p], section)),
                        section, p + 1)

extractSkills(text) ==
    LET skillsSection == findSection(text, skillKeywords)
    IN  IF Truthy(skillsSection) THEN ForEachPattern(<<>>, skillsSection, 1)
        ELSE <<>>

(* lines of the documents that are parsed *)
TextLines ==
    {<<"Software", "Dev">>, <<"Education">>, <<"education", "BSc">>,
     <<"Skills">>, <<"Java", "Python">>, <<"React", "java">>,
     <<"Languages", "French">>}

Texts == {joinLines(lines) : lines \in SeqsUpTo(TextLines, MaxLines)}

ParseCalls(texts) ==
    {[fn |-> "findSection", text |-> text, keywords |-> keywords] :
        text \in texts,
        keywords \in {educationKeywords, skillKeywords, languageKeywords}}
    \cup {[fn |-> "extractSkills", text |-> text] : text \in texts}

InitParse ==
    /\ uploadedFiles = <<>>
    /\ questions = <<>>
    /\ disk = {}
    /\ pc = "idle"
    /\ processingLog = "none"
    /\ parsedDocuments = <<>>
    /\ combinedDocumentData = NoData
    /\ questionMappings = NoData
    /\ preFilledAnswers = <<>>
    /\ genIndex = 0
    /\ aiCalls = {}
    /\ aiOutcomes = <<>>
    /\ preFillResults = NoData
    /\ response = 0
    /\ ServerIdle
    /\ fnCall \in ParseCalls(Texts)
    /\ fnResult = NoData

CallFindSection ==
    /\ fnCall.fn = "findSection"
    /\ IsNone(fnResult)
    /\ fnResult' = [section |-> findSection(fnCall.text, fnCall.keywords)]
    /\ UNCHANGED <<serverVars, pipelineVars, fnCall>>

CallExtractSkills ==
    /\ fnCall.fn = "extractSkills"
    /\ IsNone(fnResult)
    /\ fnResult' = [skills |-> extractSkills(fnCall.text)]
    /\ UNCHANGED <<serverVars, pipelineVars, fnCall>>

NextParse ==
    \/ CallFindSection
    \/ CallExtractSkills

SpecParse == InitParse /\ [][NextParse]_vars

----------------------------------------------------------------------------
(* authController: forgotPassword and resetPassword requests, handled      *)
(* concurrently; a handler runs from one await to the next without         *)
(* interruption, and a save reaches the database in a step of its own      *)

MaxAuthRequests == 2
MaxTime == 2
MaxGuesses == 6

(* 10 * 60 * 1000 ms, in units of ten minutes *)
OtpLifetime == 1

Emails == {"ann@x", "zed@x"}
OTPs == {"111111", "222222"}

(* crypto.createHash('sha256').update(otp).digest('hex') *)
sha256(otp) == StrItem(<<"sha256", otp>>)

(* the pre-save hook: bcrypt.hash(this.password, 10) *)
bcrypt(password) == StrItem(<<"bcrypt", password>>)

Date(time) == [time |-> time]

NewUser(password) ==
    [password |-> bcrypt(password),
     passwordResetOTP |-> UndefinedItem,
     passwordResetOTPExpire |-> UndefinedItem,
     passwordResetOTPAttempts |-> 0]

(* the account after forgotPassword stored an OTP at the given time *)
WithOTP(user, otp, time) ==
    [user EXCEPT !.passwordResetOTP = sha256(otp),
                 !.passwordResetOTPExpire = Date(time + OtpLifetime),
                 !.passwordResetOTPAttempts = 0]

(* createError(status, message) handed to next, or res.status().json() *)
Reply(status, message) == [status |-> status, message |-> message]
NoReply == Reply(0, "")
Generic == Reply(200, "If that email exists, an OTP has been sent.")
InvalidOTP == Reply(400, "Invalid or expired OTP")

AuthRequest(fn, email, otp, newPassword) ==
    [fn |-> fn, email |-> email, otp |-> otp, newPassword |-> newPassword,
     pc |-> "find", user |-> NoData, expire |-> UndefinedItem,
     reply |-> NoReply, saw |-> "none", wrongBefore |-> 0, unexpired |-> FALSE,
     changed |-> FALSE]

(* history.mail: whether sendEmail succeeds; history.wrong: the wrong       *)
(* guesses compared with the stored OTP since it was issued;                *)
(* history.lastOtpEvent: what last happened to the stored OTP.  The account *)
(* of ann is new, or forgotPassword has stored an OTP for it                *)
InitAuth ==
    /\ PipelineIdle
    /\ questions = <<>>
    /\ requests = <<>>
    /\ roadmaps = <<>>
    /\ now = 0
    /\ \E mail \in {"up", "down"} :
          \/ /\ users = ("ann@x" :> NewUser("old"))
             /\ history = [mail |-> mail, wrong |-> 0, lastOtpEvent |-> "none"]
          \/ /\ users = ("ann@x" :> WithOTP(NewUser("old"), "111111", 0))
             /\ history = [mail |-> mail, wrong |-> 0, lastOtpEvent |-> "issued"]

AcceptForgotPassword ==
    /\ Len(requests) < MaxAuthRequests
    /\ \E email \in Emails, otp \in OTPs :
          requests' = Append(requests,
                             AuthRequest("forgotPassword", email, otp, "-"))
    /\ UNCHANGED <<pipelineVars, fnCall, fnResult, users, roadmaps, now, history>>

AcceptResetPassword ==
    /\ Len(requests) < MaxAuthRequests
    /\ \E email \in Emails, otp \in OTPs :
          requests' = Append(requests,
                             AuthRequest("resetPassword", email, otp, "new"))
    /\ UNCHANGED <<pipelineVars, fnCall, fnResult, users, roadmaps, now, history>>

(* the clock advances *)
Tick ==
    /\ now < MaxTime
    /\ now' = now + 1
    /\ UNCHANGED <<pipelineVars, fnCall, fnResult, requests, users, roadmaps, history>>

(* forgotPassword up to user.save(): User.findOne, the generic reply for   *)
(* an unknown email, the OTP (req.otp stands for Math.random) and its      *)
(* expiry date                                                             *)
ForgotFind(r) ==
    /\ requests[r].fn = "forgotPassword"
    /\ requests[r].pc = "find"
    /\ IF requests[r].email \notin DOMAIN users
       THEN requests' = [requests EXCEPT ![r].pc = "done", ![r].reply = Generic]
       ELSE requests' = [requests EXCEPT
                            ![r].pc = "save",
                            ![r].user = users[requests[r].email],
                            ![r].expire = Date(now + OtpLifetime)]
    /\ UNCHANGED <<pipelineVars, fnCall, fnResult, users, roadmaps, now, history>>

(* the first save of forgotPassword stores the hashed OTP *)
ForgotSave(r) ==
    /\ requests[r].fn = "forgotPassword"
    /\ requests[r].pc = "save"
    /\ users' = [users EXCEPT
                    ![requests[r].email].passwordResetOTP = sha256(requests[r].otp),
                    ![requests[r].email].passwordResetOTPExpire = requests[r].expire,
                    ![requests[r].email].passwordResetOTPAttempts = 0]
    /\ requests' = [requests EXCEPT ![r].pc = "mail"]
    /\ history' = [history EXCEPT !.wrong = 0, !.lastOtpEvent = "issued"]
    /\ UNCHANGED <<pipelineVars, fnCall, fnResult, roadmaps, now>>

(* await sendEmail(...): the generic reply, or the catch block that        *)
(* clears the OTP fields of the document                                   *)
ForgotMail(r) ==
    /\ requests[r].fn = "forgotPassword"
    /\ requests[r].pc = "mail"
    /\ requests' = IF history.mail = "up"
                   THEN [requests EXCEPT ![r].pc = "done", ![r].reply = Generic]
                   ELSE [requests EXCEPT ![r].pc = "withdraw"]
    /\ UNCHANGED <<pipelineVars, fnCall, fnResult, users, roadmaps, now, history>>

(* the save of the catch block and its 500 *)
ForgotWithdraw(r) ==
    /\ requests[r].fn = "forgotPassword"
    /\ requests[r].pc = "withdraw"
    /\ users' = [users EXCEPT
                    ![requests[r].email].passwordResetOTP = UndefinedItem,
                    ![requests[r].email].passwordResetOTPExpire = UndefinedItem]
    /\ requests' = [requests EXCEPT
                       ![r].pc = "done",
                       ![r].reply = Reply(500, "Failed to send reset email")]
    /\ history' = [history EXCEPT !.lastOtpEvent = "withdrawn"]
    /\ UNCHANGED <<pipelineVars, fnCall, fnResult, roadmaps, now>>

(* the decision without the test of the expiry date *)
ResetDecisionNoExpiry(user, otp, time) ==
    IF IsNone(user) \/ user.passwordResetOTP = UndefinedItem
       \/ user.passwordResetOTPExpire = UndefinedItem
    THEN [do |-> "refuse", reply |-> InvalidOTP]
    ELSE IF user.passwordResetOTPAttempts >= 5
    THEN [do |-> "refuse", reply |-> Reply(429, "Too many attempts")]
    ELSE IF sha256(otp) # user.passwordResetOTP
    THEN [do |-> "count", reply |-> InvalidOTP]
    ELSE [do |-> "reset", reply |-> Reply(200, "Password reset successful")]

(* what resetPassword decides on the document it has read:                 *)
(* "refuse" with a reply, "count" a wrong guess, or "reset" the password   *)
ResetDecision(user, otp, time) ==
    IF IsNone(user) \/ user.passwordResetOTP = UndefinedItem
       \/ user.passwordResetOTPExpire = UndefinedItem
    THEN [do |-> "refuse", reply |-> InvalidOTP]
    ELSE IF user.passwordResetOTPExpire.time < time
    THEN [do |-> "refuse", reply |-> InvalidOTP]
    ELSE IF user.passwordResetOTPAttempts >= 5
    THEN [do |-> "refuse", reply |-> Reply(429, "Too many attempts")]
    ELSE IF sha256(otp) # user.passwordResetOTP
    THEN [do |-> "count", reply |-> InvalidOTP]
    ELSE [do |-> "reset", reply |-> Reply(200, "Password reset successful")]

(* resetPassword up to user.save(): User.findOne, the checks and the       *)
(* comparison of the hashes                                                *)
ResetFind(r) ==
    /\ requests[r].fn = "resetPassword"
    /\ requests[r].pc = "find"
    /\ LET user == IF requests[r].email \in DOMAIN users
                   THEN users[requests[r].email] ELSE NoData
           decision == ResetDecision(user, requests[r].otp, now)
       IN  /\ requests' =
                 [requests EXCEPT
                    ![r].user = user,
                    ![r].saw = history.lastOtpEvent,
                    ![r].wrongBefore = history.wrong,
                    ![r].unexpired =
                        /\ ~IsNone(user)
                        /\ user.passwordResetOTPExpire # UndefinedItem
                        /\ user.passwordResetOTPExpire.time >= now,
                    ![r].pc = IF decision.do = "refuse" THEN "done" ELSE "save",
                    ![r].reply = IF decision.do = "refuse" THEN decision.reply
                                 ELSE NoReply]
           /\ history' =
                 IF decision.do = "count"
                 THEN [history EXCEPT !.wrong = @ + 1]
                 ELSE history
    /\ UNCHANGED <<pipelineVars, fnCall, fnResult, users, roadmaps, now>>

(* user.save() of resetPassword: the modified paths of the document that   *)
(* was read are written                                                    *)
ResetSave(r) ==
    /\ requests[r].fn = "resetPassword"
    /\ requests[r].pc = "save"
    /\ LET counted == sha256(requests[r].otp) # requests[r].user.passwordResetOTP
       IN  IF counted
           THEN /\ users' = [users EXCEPT
                               ![requests[r].email].passwordResetOTPAttempts =
                                   requests[r].user.passwordResetOTPAttempts + 1]
                /\ requests' = [requests EXCEPT
                                   ![r].pc = "done", ![r].reply = InvalidOTP]
                /\ UNCHANGED history
           ELSE /\ users' = [users EXCEPT
                               ![requests[r].email].password =
                                   bcrypt(requests[r].newPassword),
                               ![requests[r].email].passwordResetOTP = UndefinedItem,
                               ![requests[r].email].passwordResetOTPExpire = UndefinedItem,
                               ![requests[r].email].passwordResetOTPAttempts = 0]
                /\ requests' = [requests EXCEPT
                                   ![r].pc = "done",
                                   ![r].changed = TRUE,
                                   ![r].reply = Reply(200, "Password reset successful")]
                /\ history' = [history EXCEPT !.lastOtpEvent = "reset"]
    /\ UNCHANGED <<pipelineVars, fnCall, fnResult, roadmaps, now>>

NextAuth ==
    \/ AcceptForgotPassword
    \/ AcceptResetPassword
    \/ Tick
    \/ \E r \in DOMAIN requests : ForgotFind(r)
    \/ \E r \in DOMAIN requests : ForgotSave(r)
    \/ \E r \in DOMAIN requests : ForgotMail(r)
    \/ \E r \in DOMAIN requests : ForgotWithdraw(r)
    \/ \E r \in DOMAIN requests : ResetFind(r)
    \/ \E r \in DOMAIN requests : ResetSave(r)

SpecAuth == InitAuth /\ [][NextAuth]_vars

(* resetPassword requests that guess the OTP of one account, all received  *)
(* before any of them is handled; the last one carries the right OTP       *)
InitGuess ==
    /\ PipelineIdle
    /\ questions = <<>>
    /\ requests =
          [r \in 1..(MaxGuesses + 1) |->
              AuthRequest("resetPassword", "ann@x",
                          IF r <= MaxGuesses THEN "222222" ELSE "111111", "new")]
    /\ users = ("ann@x" :> WithOTP(NewUser("old"), "111111", 0))
    /\ roadmaps = <<>>
    /\ now = 0
    /\ history = [mail |-> "up", wrong |-> 0, lastOtpEvent |-> "issued"]

(* the wrong guesses are the same request: of those that were not read    *)
(* yet, the one with the lowest number is read first                       *)
NextToRead(r) ==
    r > MaxGuesses \/ \A q \in 1..(r - 1) : requests[q].pc # "find"

NextGuess ==
    \/ \E r \in DOMAIN requests : NextToRead(r) /\ ResetFind(r)
    \/ \E r \in DOMAIN requests : ResetSave(r)

SpecGuess == InitGuess /\ [][NextGuess]_vars

----------------------------------------------------------------------------
(* roadmapController: generateUserRoadmap requests, handled concurrently   *)

MaxRoadmapRequests == 3

(* the accounts that send requests: ann has answered the questionnaire,    *)
(* bob has not, root is an administrator                                   *)
RoadmapUsers ==
    [ann |-> [role |-> "user", responses |-> 1],
     bob |-> [role |-> "user", responses |-> 0],
     root |-> [role |-> "admin", responses |-> 0]]

InitRoadmap ==
    /\ PipelineIdle
    /\ questions = <<>>
    /\ requests = <<>>
    /\ users = RoadmapUsers
    /\ roadmaps = <<>>
    /\ now = 0
    /\ history = <<>>

AcceptGenerateUserRoadmap ==
    /\ Len(requests) < MaxRoadmapRequests
    /\ \E user \in DOMAIN users :
          requests' = Append(requests,
                             [fn |-> "generateUserRoadmap", user |-> user,
                              pc |-> "findUser", reply |-> NoReply,
                              created |-> FALSE])
    /\ UNCHANGED <<pipelineVars, fnCall, fnResult, users, roadmaps, now, history>>

(* User.findById with the role check, UserResponse.find with its check *)
RoadmapFindUser(r) ==
    /\ requests[r].fn = "generateUserRoadmap"
    /\ requests[r].pc = "findUser"
    /\ requests' =
          IF users[requests[r].user].role # "user"
          THEN [requests EXCEPT
                   ![r].pc = "done",
                   ![r].reply = Reply(403, "Only registered users can generate roadmaps")]
          ELSE IF users[requests[r].user].responses = 0
          THEN [requests EXCEPT
                   ![r].pc = "done",
                   ![r].reply = Reply(400, "Please complete the questionnaire first to generate your roadmap")]
          ELSE [requests EXCEPT ![r].pc = "findRoadmap"]
    /\ UNCHANGED <<pipelineVars, fnCall, fnResult, users, roadmaps, now, history>>

(* Roadmap.findOne({ user: userId }) and the reply with the roadmap found *)
RoadmapFindOne(r) ==
    /\ requests[r].fn = "generateUserRoadmap"
    /\ requests[r].pc = "findRoadmap"
    /\ requests' =
          IF \E i \in 1..Len(roadmaps) : roadmaps[i].user = requests[r].user
          THEN [requests EXCEPT
                   ![r].pc = "done",
                   ![r].reply = Reply(200, "Roadmap already exists for this user")]
          ELSE [requests EXCEPT ![r].pc = "generate"]
    /\ UNCHANGED <<pipelineVars, fnCall, fnResult, users, roadmaps, now, history>>

(* generateRoadmap and the lookup of its courses: a roadmap to save, or    *)
(* one of the 500 replies (generation failed, no valid course, exception)  *)
RoadmapGenerate(r) ==
    /\ requests[r].fn = "generateUserRoadmap"
    /\ requests[r].pc = "generate"
    /\ \/ requests' = [requests EXCEPT ![r].pc = "save"]
       \/ \E message \in {"Failed to generate roadmap",
                          "No valid courses found for roadmap generation",
                          "Internal server error during roadmap generation"} :
             requests' = [requests EXCEPT
                             ![r].pc = "done", ![r].reply = Reply(500, message)]
    /\ UNCHANGED <<pipelineVars, fnCall, fnResult, users, roadmaps, now, history>>

(* new Roadmap({...}).save() and the 201 reply *)
RoadmapSave(r) ==
    /\ requests[r].fn = "generateUserRoadmap"
    /\ requests[r].pc = "save"
    /\ roadmaps' = Append(roadmaps, [_id |-> Len(roadmaps) + 1,
                                     user |-> requests[r].user])
    /\ requests' = [requests EXCEPT
                       ![r].pc = "done",
                       ![r].created = TRUE,
                       ![r].reply = Reply(201, "Roadmap generated successfully")]
    /\ UNCHANGED <<pipelineVars, fnCall, fnResult, users, now, history>>

NextRoadmap ==
    \/ AcceptGenerateUserRoadmap
    \/ \E r \in DOMAIN requests : RoadmapFindUser(r)
    \/ \E r \in DOMAIN requests : RoadmapFindOne(r)
    \/ \E r \in DOMAIN requests : RoadmapGenerate(r)
    \/ \E r \in DOMAIN requests : RoadmapSave(r)

SpecRoadmap == InitRoadmap /\ [][NextRoadmap]_vars

----------------------------------------------------------------------------
(* Properties *)

AllMappings ==
    questionMappings.autoFill \o questionMappings.aiSuggestions
        \o questionMappings.noMatch

BucketIds(bucket) == {bucket[k].questionId : k \in 1..Len(bucket)}

QuestionById(id) == questions[findQuestion(questions, id)]

(* C1: analyzeDocumentMapping returns exactly N mappings for N questions   *)
(* with distinct ids, and every question id is in exactly one of the       *)
(* buckets autoFill, aiSuggestions, noMatch.                               *)
C1_OneMappingPerQuestion ==
    ~IsNone(questionMappings) =>
        /\ Len(AllMappings) = Len(questions)
        /\ \A i \in 1..Len(questions) :
              Cardinality({k \in 1..Len(AllMappings) :
                              AllMappings[k].questionId = questions[i]._id}) = 1

C1_Witness ==
    /\ ~IsNone(questionMappings)
    /\ Len(questionMappings.autoFill) = 1
    /\ Len(questionMappings.aiSuggestions) = 1

(* number of entries the merged profile holds for a question type *)
EntryCount(documentData, questionType) ==
    Len(ProfileField(documentData, questionType))

(* C2: a question is in the auto-fill bucket exactly when the merged       *)
(* profile has an entry for its inferred type, and the collaborator is     *)
(* called for a question only when the profile has no entry for its type.  *)
C2_AutoFillIffProfileEntry ==
    ~IsNone(questionMappings) =>
        /\ \A i \in 1..Len(questions) :
              (questions[i]._id \in BucketIds(questionMappings.autoFill))
              <=> EntryCount(combinedDocumentData,
                             determineQuestionType(questions[i].text)) > 0
        /\ \A id \in aiCalls :
              EntryCount(combinedDocumentData,
                         determineQuestionType(QuestionById(id).text)) = 0

C2_Witness ==
    /\ ~IsNone(questionMappings)
    /\ aiCalls # {}
    /\ \E i \in 1..Len(questions) :
          /\ questions[i]._id \in BucketIds(questionMappings.autoFill)
          /\ determineQuestionType(questions[i].text) = "languages"

OptionSet(question) == {question.options[k] : k \in 1..Len(question.options)}

(* C3: when the collaborator raises or times out for an AI-suggestion      *)
(* question, the answer value is the first supplied option if the question *)
(* has options and "Not specified" if it has none.                         *)
C3_FallbackValue ==
    (/\ fnCall.fn = "generateAISuggestions"
     /\ ~IsNone(fnResult)
     /\ fnCall.outcome.kind = "raise")
    => fnResult.answer = IF Len(fnCall.question.options) > 0
                         THEN fnCall.question.options[1]
                         ELSE NotSpecified

C3_Witness ==
    /\ fnCall.fn = "generateAISuggestions"
    /\ ~IsNone(fnResult)
    /\ fnCall.outcome.kind = "raise"
    /\ Len(fnCall.question.options) = 2
    /\ fnResult.answer = <<"Py">>

(* C4: whatever the collaborator does for the AI-suggestion questions,     *)
(* processDocumentsAndPreFill returns success = true and preFilledAnswers  *)
(* has one entry for every question of the auto-fill and AI-suggestion     *)
(* buckets.                                                                *)
C4_GenerationNeverFailsBatch ==
    (~IsNone(questionMappings) /\ pc \in {"returned", "done"}) =>
        /\ preFillResults.success
        /\ DOMAIN preFilledAnswers =
              BucketIds(questionMappings.autoFill)
                  \cup BucketIds(questionMappings.aiSuggestions)

C4_Witness ==
    /\ pc = "returned"
    /\ preFillResults.success
    /\ \E a, b \in DOMAIN aiOutcomes :
          /\ aiOutcomes[a].kind = "raise"
          /\ aiOutcomes[b].kind = "nullContent"

(* C5: when a prefill request that uploaded files has finished, on any     *)
(* path, every one of its uploaded temporary files has been deleted.       *)
C5_UploadsDeletedWhenFinished ==
    (pc = "done" /\ Len(uploadedFiles) > 0) =>
        disk \cap Paths(uploadedFiles) = {}

SupportedMimeTypes ==
    supportedFormats.pdf \cup supportedFormats.word \cup supportedFormats.image
        \cup supportedFormats.text

(* the format is unsupported, the extraction throws, or the text is empty *)
ExtractionFails(file) ==
    \/ file.mimetype \notin SupportedMimeTypes
    \/ file.extraction \in {"throws", "empty"}

(* the successfully parsed documents of a batch, in upload order *)
RECURSIVE GoodDocuments(_, _)
GoodDocuments(files, i) ==
    IF i > Len(files) THEN <<>>
    ELSE (IF ExtractionFails(files[i]) THEN <<>>
          ELSE <<[success |-> TRUE, structuredData |-> files[i].data]>>)
         \o GoodDocuments(files, i + 1)

(* C6: a document whose format is unsupported, whose extraction throws or  *)
(* whose text is empty yields success = false with an error; the batch     *)
(* goes on: parseAllDocuments returns one ParsedDocument per file in       *)
(* upload order, every other document is parsed as it would be alone, and  *)
(* the failed document contributes nothing to the merged profile.          *)
C6_ExtractionFailureIsolated ==
    /\ \A i \in 1..Len(parsedDocuments) :
          LET file == uploadedFiles[i]
              doc == parsedDocuments[i]
          IN  /\ doc.originalFile = file.path
              /\ ExtractionFails(file) =>
                    ~doc.success /\ doc.error # "" /\ IsNone(doc.structuredData)
              /\ ~ExtractionFails(file) =>
                    doc.success /\ doc.structuredData = file.data
    /\ pc \in {"analyze", "generate", "returned"} =>
          Len(parsedDocuments) = Len(uploadedFiles)
    /\ ~IsNone(combinedDocumentData) =>
          combinedDocumentData = combineDocumentData(GoodDocuments(uploadedFiles, 1))

C6_Witness ==
    /\ ~IsNone(combinedDocumentData)
    /\ Len(parsedDocuments) = 2
    /\ ~parsedDocuments[1].success
    /\ uploadedFiles[1].mimetype = "application/zip"
    /\ parsedDocuments[2].success
    /\ Len(combinedDocumentData.education) = 1

AllDocumentsFailed ==
    /\ Len(uploadedFiles) > 0
    /\ Len(parsedDocuments) = Len(uploadedFiles)
    /\ \A i \in 1..Len(parsedDocuments) : ~parsedDocuments[i].success

(* C7: if every document of a batch fails extraction, the pipeline reports *)
(* a fatal failure: processDocumentsAndPreFill does not return success =   *)
(* true and preFillQuestions does not answer with a 200 pre-fill result.   *)
C7_AllDocumentsFailedIsFatal ==
    AllDocumentsFailed =>
        /\ ~IsNone(preFillResults) => ~preFillResults.success
        /\ response # 200

(* the property of a structured entry that generateAutoFillAnswer matches *)
(* against the options                                                     *)
MatchedKey(questionType) ==
    CASE questionType = "education" -> "degree"
      [] questionType = "experience" -> "title"
      [] questionType = "certifications" -> "name"

(* C8: for a multiple-choice question of the auto-fill bucket, whenever    *)
(* some option matches the selected profile value (case-insensitive        *)
(* substring, either direction) the answer value is exactly one of the     *)
(* option strings; for the string lists it is the first option matching    *)
(* the first profile entry that matches any option.                        *)
C8_AutoFillAnswerIsOption ==
    (/\ fnCall.fn = "generateAutoFillAnswer"
     /\ ~IsNone(fnResult)
     /\ fnCall.question.type = "multiple-choice")
    => LET options == fnCall.question.options
           entries == ProfileField(fnCall.documentData, fnCall.questionType)
           matched(value) ==
               \E k \in 1..Len(options) : MatchesEitherWay(options[k], value)
       IN  IF fnCall.questionType \in {"skills", "languages"}
           THEN LET m == FindIndex(entries,
                             LAMBDA e : TypeofString(e) /\ matched(e.str))
                IN  m # 0 =>
                      fnResult.answer =
                         options[FindIndex(options,
                                   LAMBDA o : MatchesEitherWay(o, entries[m].str))]
           ELSE matched(entries[1][MatchedKey(fnCall.questionType)]) =>
                   fnResult.answer \in OptionSet(fnCall.question)

(* C9: for a question with options on the AI-suggestion path the answer    *)
(* value is always one of the option strings: the matched option when the  *)
(* parsed text of the collaborator matches one, the first option when it   *)
(* matches none.                                                           *)
C9_SuggestionIsOption ==
    \A id \in DOMAIN aiOutcomes :
        LET options == QuestionById(id).options
            k == FindIndex(options,
                    LAMBDA o : MatchesEitherWay(o, mainAnswerOf(aiOutcomes[id].content)))
        IN  Len(options) > 0 =>
               /\ preFilledAnswers[id].answer \in OptionSet(QuestionById(id))
               /\ aiOutcomes[id].kind = "text" =>
                     preFilledAnswers[id].answer =
                        IF k # 0 THEN options[k] ELSE options[1]

CollaboratorRaised(id) == aiOutcomes[id].kind = "raise"

AnsweredAutoFill ==
    IF IsNone(questionMappings) THEN {}
    ELSE {k \in 1..Len(questionMappings.autoFill) :
             questionMappings.autoFill[k].questionId \in DOMAIN preFilledAnswers}

(* C11 as stated: for every question of the auto-fill bucket the           *)
(* confidence of its answer equals the confidence of its mapping,          *)
(* min(dataPointCount / 3, 1).                                             *)
C11_ConfidenceCarried ==
    \A k \in AnsweredAutoFill :
        LET mapping == questionMappings.autoFill[k]
        IN  preFilledAnswers[mapping.questionId].confidence = mapping.confidence

(* C11 amended: the answer of an auto-fill question has a fixed            *)
(* confidence that is never the confidence of its mapping: 0.8 when the    *)
(* question is not multiple-choice, 0.9 when it is multiple-choice and an  *)
(* option was selected, 0 when no answer value was produced; the mapping   *)
(* keeps min(dataPointCount / 3, 1).                                       *)
C11_ConfidenceFixed ==
    \A k \in AnsweredAutoFill :
        LET mapping == questionMappings.autoFill[k]
            question == QuestionById(mapping.questionId)
            answer == preFilledAnswers[mapping.questionId]
            count == EntryCount(combinedDocumentData, mapping.questionType)
        IN  /\ 3 * mapping.confidence = Min(count, 3) * ConfScale
            /\ answer.confidence # mapping.confidence
            /\ answer.confidence =
                  IF question.type # "multiple-choice" THEN Conf(8)
                  ELSE IF answer.answer # Null THEN Conf(9)
                  ELSE 0

C11_Witness ==
    /\ pc = "returned"
    /\ \E j, k \in AnsweredAutoFill :
          /\ preFilledAnswers[questionMappings.autoFill[j].questionId].confidence
                = Conf(9)
          /\ preFilledAnswers[questionMappings.autoFill[k].questionId].confidence
                = Conf(8)

(* C12: the confidence of an auto-fill mapping lies in [0, 1], does not    *)
(* decrease when the number of profile entries of the question's type      *)
(* grows, and is 1 for every count of 3 or more.                           *)
C12_ConfidenceClamped ==
    ~IsNone(questionMappings) =>
        \A k \in 1..Len(questionMappings.autoFill) :
            LET mapping == questionMappings.autoFill[k]
                count == EntryCount(combinedDocumentData, mapping.questionType)
            IN  /\ mapping.confidence \in 0..ConfScale
                /\ count >= 3 => mapping.confidence = ConfScale
                /\ \A j \in 1..Len(questionMappings.autoFill) :
                      LET other == questionMappings.autoFill[j]
                      IN  EntryCount(combinedDocumentData, other.questionType) <= count
                          => other.confidence <= mapping.confidence

C12_Witness ==
    /\ ~IsNone(questionMappings)
    /\ \E j, k \in 1..Len(questionMappings.autoFill) :
          /\ EntryCount(combinedDocumentData,
                        questionMappings.autoFill[j].questionType) = 1
          /\ questionMappings.autoFill[j].confidence < ConfScale
          /\ EntryCount(combinedDocumentData,
                        questionMappings.autoFill[k].questionType) = 4
          /\ questionMappings.autoFill[k].confidence = ConfScale

(* C13: a question that cannot be answered from text, such as a question   *)
(* of type upload, is placed in the no-match bucket and no answer is       *)
(* produced for it.                                                        *)
C13_UploadQuestionHasNoMatch ==
    ~IsNone(questionMappings) =>
        \A i \in 1..Len(questions) :
            (\/ questions[i].type = "upload"
             \/ ~canGenerateSuggestions(determineQuestionType(questions[i].text)))
            => /\ questions[i]._id \in BucketIds(questionMappings.noMatch)
               /\ questions[i]._id \notin DOMAIN preFilledAnswers

(* the singular fields of a profile: <<group, key>>, group "" for the      *)
(* top-level strings                                                       *)
SingularFields ==
    {<<"personalInfo", k>> : k \in {"name", "email", "phone", "location"}}
    \cup {<<"contactInfo", k>> : k \in {"linkedin", "github", "website"}}
    \cup {<<"", "objective">>, <<"", "summary">>}

SingularValue(data, field) ==
    IF field[1] = "" THEN data[field[2]] ELSE Get(data[field[1]], field[2])

(* what a parsed document supplies for a singular field *)
DocValue(doc, field) ==
    IF ~doc.success \/ IsNone(doc.structuredData) THEN Undefined
    ELSE SingularValue(doc.structuredData, field)

(* C14: every singular field of the merged profile (personalInfo name,     *)
(* email, phone, location; contactInfo linkedin, github, website;          *)
(* objective; summary) holds the value of the first successfully parsed    *)
(* document, in input order, that has a non-empty value for it; later      *)
(* values never replace it.                                                *)
C14_SingularFirstWins ==
    ~Threw(fnResult.combinedData) =>
        \A field \in SingularFields :
            LET first == FindIndex(SubSeq(parsedDocuments, 1, fnResult.merged),
                                   LAMBDA doc : Truthy(DocValue(doc, field)))
            IN  SingularValue(fnResult.combinedData, field) =
                   IF first # 0 THEN DocValue(parsedDocuments[first], field)
                   ELSE SingularValue(EmptyProfile, field)

C14_Witness ==
    /\ pc = "analyze"
    /\ Len(parsedDocuments) = 3
    /\ ~Truthy(DocValue(parsedDocuments[1], <<"", "objective">>))
    /\ Truthy(DocValue(parsedDocuments[2], <<"personalInfo", "name">>))
    /\ Truthy(DocValue(parsedDocuments[3], <<"personalInfo", "name">>))
    /\ DocValue(parsedDocuments[2], <<"personalInfo", "name">>)
          # DocValue(parsedDocuments[3], <<"personalInfo", "name">>)
    /\ combinedDocumentData.personalInfo.name
          = DocValue(parsedDocuments[2], <<"personalInfo", "name">>)
    /\ combinedDocumentData.objective
          = DocValue(parsedDocuments[2], <<"", "objective">>)

(* the list fields whose entries are structured *)
StructuredFields ==
    {"education", "experience", "certifications", "projects", "achievements"}

(* two structured entries are equal, ignoring case, on name, title,        *)
(* degree or company                                                       *)
ShareKeyIgnoringCase(a, b) ==
    \E key \in {"name", "title", "degree", "company"} :
        /\ key \in DOMAIN a /\ key \in DOMAIN b
        /\ a[key] # <<>>
        /\ toLowerCase(a[key]) = toLowerCase(b[key])

(* the documents folded so far that contribute to the merge *)
MergedGoodDocs ==
    {i \in 1..fnResult.merged :
        parsedDocuments[i].success /\ ~IsNone(parsedDocuments[i].structuredData)}

(* C15: after merging any sequence of documents no list of structured      *)
(* entries (education, experience, certifications, projects, achievements) *)
(* holds two entries equal, ignoring case, on name, title, degree or       *)
(* company, and every entry of a merged document is represented: two       *)
(* documents with the same experience entry yield exactly one such entry.  *)
C15_NoDuplicateEntries ==
    ~Threw(fnResult.combinedData) =>
        \A field \in StructuredFields :
            LET list == fnResult.combinedData[field]
            IN  /\ \A i, j \in 1..Len(list) :
                      i < j => ~ShareKeyIgnoringCase(list[i], list[j])
                /\ \A d \in MergedGoodDocs :
                      LET items == parsedDocuments[d].structuredData[field]
                      IN  \A n \in 1..Len(items) :
                             \E i \in 1..Len(list) :
                                ShareKeyIgnoringCase(list[i], items[n])

C15_Witness ==
    /\ pc = "analyze"
    /\ parsedDocuments = <<GoodDoc(FragAnn), GoodDoc(FragLower)>>
    /\ combinedDocumentData.experience = <<DevAtAws, LeadAtIbm>>
    /\ Len(combinedDocumentData.education) = 1

(* the orderings of a sequence *)
Orderings(seq) ==
    {[i \in 1..Len(seq) |-> seq[f[i]]] :
        f \in {g \in [1..Len(seq) -> 1..Len(seq)] :
                  \A a, b \in 1..Len(seq) : g[a] = g[b] => a = b}}

(* equal, or duplicates under the de-duplication rule *)
SameOrDuplicate(a, b) ==
    \/ a = b
    \/ /\ TypeofString(a) /\ TypeofString(b)
       /\ toLowerCase(a.str) = toLowerCase(b.str)
    \/ /\ ~TypeofString(a) /\ ~TypeofString(b)
       /\ ~IsUndefinedItem(a) /\ ~IsUndefinedItem(b)
       /\ ShareKeyIgnoringCase(a, b)

(* C16: the list fields of the merged profile do not depend on the order   *)
(* of the documents: for every other ordering of the same documents each   *)
(* merged list has the same number of entries, and every entry of one      *)
(* result is equal to, or a duplicate of, an entry of the other.           *)
C16_ListsOrderIndependent ==
    pc = "analyze" =>
        \A other \in Orderings(parsedDocuments) :
            LET reordered == combineDocumentData(other)
            IN  /\ ~Threw(reordered)
                /\ \A k \in 1..Len(ListFields) :
                      LET here == combinedDocumentData[ListFields[k]]
                          there == reordered[ListFields[k]]
                      IN  /\ Len(here) = Len(there)
                          /\ \A i \in 1..Len(here) : \E j \in 1..Len(there) :
                                SameOrDuplicate(here[i], there[j])
                          /\ \A j \in 1..Len(there) : \E i \in 1..Len(here) :
                                SameOrDuplicate(there[j], here[i])

(* C17: merging is idempotent on the list fields: combineDocumentData over *)
(* two copies of one document yields, for every list field, exactly the    *)
(* entries of merging that document once, every item being a duplicate of  *)
(* itself.                                                                 *)
C17_MergeIdempotent ==
    (/\ Len(parsedDocuments) = 2
     /\ parsedDocuments[1] = parsedDocuments[2]
     /\ parsedDocuments[1].success
     /\ fnResult.merged = 2)
    => /\ ~Threw(fnResult.combinedData)
       /\ \A k \in 1..Len(ListFields) :
             fnResult.combinedData[ListFields[k]]
                = combineDocumentData(<<parsedDocuments[1]>>)[ListFields[k]]

C19_UnknownTypeDecodedAsText ==
    \A i \in 1..Len(parsedDocuments) :
        uploadedFiles[i].mimetype \notin SupportedMimeTypes =>
            (parsedDocuments[i].success <=> uploadedFiles[i].extraction = "text")

(* C19 amended: a document whose declared media type is not supported is   *)
(* reported as a failed document with the error "Unsupported file format", *)
(* without being decoded as plain text, also when its bytes are readable   *)
(* text.                                                                   *)
C19_UnknownTypeRejected ==
    \A i \in 1..Len(parsedDocuments) :
        uploadedFiles[i].mimetype \notin SupportedMimeTypes =>
            /\ ~parsedDocuments[i].success
            /\ parsedDocuments[i].error = "Unsupported file format"
            /\ IsNone(parsedDocuments[i].structuredData)

C19_Witness ==
    \E i \in 1..Len(parsedDocuments) :
        /\ uploadedFiles[i].mimetype \notin SupportedMimeTypes
        /\ uploadedFiles[i].extraction = "text"
        /\ ~parsedDocuments[i].success

(* a multiple-choice question stored without options *)
Malformed(question) ==
    question.type = "multiple-choice" /\ Len(question.options) = 0

(* C20: a malformed question of the list, such as a multiple-choice        *)
(* question without options, is rejected for that question only: no        *)
(* mapping and no answer is produced for it, and the other questions are   *)
(* still classified.                                                       *)
C20_MalformedQuestionRejected ==
    ~IsNone(questionMappings) =>
        \A i \in 1..Len(questions) :
            IF Malformed(questions[i])
            THEN /\ questions[i]._id \notin BucketIds(AllMappings)
                 /\ questions[i]._id \notin DOMAIN preFilledAnswers
            ELSE questions[i]._id \in BucketIds(AllMappings)

(* C21: at any time at most 3 calls to the AI answer-generation            *)
(* collaborator are in flight on behalf of one user, however many prefill  *)
(* requests of that user are running                                       *)
InFlight(user) ==
    {r \in DOMAIN requests : requests[r].user = user /\ requests[r].pc = "openai"}

C21_AtMostThreeInFlight ==
    \A user \in {requests[r].user : r \in DOMAIN requests} :
        Cardinality(InFlight(user)) <= 3

(* C22: determineQuestionType is total and gives each text exactly one     *)
(* type: the type of the first keyword group, in the order skills,         *)
(* education, experience, career_goals, certifications, languages, that    *)
(* has a keyword contained in the lower-cased text, and general when no    *)
(* group has one                                                           *)
KeywordGroups ==
    <<[type |-> "skills", keywords |-> {"skill", "programming", "technology"}],
      [type |-> "education", keywords |-> {"education", "degree", "university"}],
      [type |-> "experience", keywords |-> {"experience", "work", "career"}],
      [type |-> "career_goals", keywords |-> {"goal", "objective", "aspiration"}],
      [type |-> "certifications", keywords |-> {"certification", "certificate"}],
      [type |-> "languages", keywords |-> {"language"}]>>

QuestionTypes == {KeywordGroups[g].type : g \in DOMAIN KeywordGroups} \cup {"general"}

GroupsNamed(questionText) ==
    {g \in DOMAIN KeywordGroups :
        \E k \in KeywordGroups[g].keywords :
            \E i \in 1..Len(questionText) : toLowerCase(<<questionText[i]>>) = <<k>>}

C22_FirstKeywordGroupWins ==
    (fnCall.fn = "determineQuestionType" /\ ~IsNone(fnResult)) =>
        LET named == GroupsNamed(fnCall.questionText)
        IN  /\ fnResult.questionType \in QuestionTypes
            /\ named = {} => fnResult.questionType = "general"
            /\ named # {} =>
                  \E g \in named :
                      /\ \A h \in named : g <= h
                      /\ fnResult.questionType = KeywordGroups[g].type

(* a text that names the languages group before the experience group and   *)
(* the career_goals group got the type of the earliest group, experience   *)
C22_Witness ==
    /\ fnCall.fn = "determineQuestionType"
    /\ ~IsNone(fnResult)
    /\ fnCall.questionText = <<"language", "goal", "career">>
    /\ fnResult.questionType = "experience"

(* C23: a multiple-choice question of the auto-fill bucket none of whose   *)
(* options matches the selected profile value gets no answer value (answer *)
(* null, confidence 0), stays in the auto-fill bucket, and the collaborator*)
(* is not called for it                                                    *)
SelectedValues(documentData, questionType) ==
    CASE questionType \in {"skills", "languages"} ->
            {documentData[questionType][i].str :
                i \in {j \in 1..Len(documentData[questionType]) :
                          "str" \in DOMAIN documentData[questionType][j]}}
      [] questionType = "education" -> {documentData.education[1].degree}
      [] questionType = "experience" -> {documentData.experience[1].title}
      [] questionType = "certifications" -> {documentData.certifications[1].name}
      [] OTHER -> {}

SomeOptionMatches(question, documentData, questionType) ==
    \E o \in 1..Len(question.options) :
        \E value \in SelectedValues(documentData, questionType) :
            \/ includes(toLowerCase(question.options[o]), toLowerCase(value))
            \/ includes(toLowerCase(value), toLowerCase(question.options[o]))

UnmatchedChoice(k) ==
    /\ QuestionById(questionMappings.autoFill[k].questionId).type = "multiple-choice"
    /\ ~SomeOptionMatches(QuestionById(questionMappings.autoFill[k].questionId),
                          combinedDocumentData,
                          questionMappings.autoFill[k].questionType)

C23_NoMatchNoAnswer ==
    \A k \in AnsweredAutoFill :
        UnmatchedChoice(k) =>
            LET id == questionMappings.autoFill[k].questionId
            IN  /\ preFilledAnswers[id].type = "auto-fill"
                /\ preFilledAnswers[id].answer = Null
                /\ preFilledAnswers[id].confidence = 0
                /\ id \notin aiCalls
                /\ id \notin DOMAIN aiOutcomes
                /\ \A j \in 1..Len(questionMappings.aiSuggestions) :
                       questionMappings.aiSuggestions[j].questionId # id

(* the request has finished and answered a multiple-choice education       *)
(* question whose options do not name the degree of the profile            *)
C23_Witness ==
    /\ pc = "done"
    /\ response = 200
    /\ \E k \in AnsweredAutoFill :
          /\ UnmatchedChoice(k)
          /\ questionMappings.autoFill[k].questionType = "education"
          /\ preFilledAnswers[questionMappings.autoFill[k].questionId].answer = Null

(* C24: findSection returns the span that starts at the first line with a *)
(* keyword of the section's keyword set and ends just before the first     *)
(* later line with a keyword of the next-section keyword set, or at the    *)
(* end of the text; the next-section keyword set is disjoint from the      *)
(* section's own keyword set; the result is absent when no line has a      *)
(* section keyword                                                         *)
HasAnyOf(line, keywords) ==
    \E i \in 1..Len(line) : \E k \in keywords : toLowerCase(<<line[i]>>) = <<k>>

IsSpanOf(section, lines, keywords, nextKeywords) ==
    \E first \in 1..Len(lines) :
        \E last \in first..Len(lines) :
            /\ HasAnyOf(lines[first], keywords)
            /\ \A i \in 1..(first - 1) : ~HasAnyOf(lines[i], keywords)
            /\ \A i \in (first + 1)..last : ~HasAnyOf(lines[i], nextKeywords)
            /\ last < Len(lines) => HasAnyOf(lines[last + 1], nextKeywords)
            /\ section = joinLines(SubSeq(lines, first, last))

SectionSpanAsDescribed ==
    (fnCall.fn = "findSection" /\ ~IsNone(fnResult)) =>
        LET lines == split(fnCall.text)
        IN  IF \E i \in 1..Len(lines) : HasAnyOf(lines[i], fnCall.keywords)
            THEN IsSpanOf(fnResult.section, lines, fnCall.keywords,
                          nextSectionKeywords)
            ELSE fnResult.section = Null

C24_SectionSpanDisjointSets ==
    /\ SectionSpanAsDescribed
    /\ (fnCall.fn = "findSection" /\ ~IsNone(fnResult)
           /\ Len(split(fnCall.text)) > 1 /\ fnResult.section # Null) =>
           fnCall.keywords \cap nextSectionKeywords = {}

(* C25: every entry of the skills list of the entity extractor is a       *)
(* string of the curated skill vocabulary that occurs in the located       *)
(* skills section, each distinct matched term once; the terms a skills     *)
(* section lists are in the list                                           *)
SkillVocabulary == UNION {skillPatterns[p] : p \in DOMAIN skillPatterns}

TermsOf(section) ==
    IF section = Null THEN {}
    ELSE {section[i] : i \in {j \in 1..Len(section) :
                                 toLowerCase(<<section[j]>>)[1] \in SkillVocabulary}}

C25_SkillsAreVocabularyTerms ==
    (fnCall.fn = "extractSkills" /\ ~IsNone(fnResult)) =>
        LET skills == fnResult.skills
            terms == TermsOf(findSection(fnCall.text, skillKeywords))
        IN  /\ \A i \in 1..Len(skills) :
                   /\ "str" \in DOMAIN skills[i]
                   /\ Len(skills[i].str) = 1
                   /\ skills[i].str[1] \in terms
            /\ \A i, j \in 1..Len(skills) : skills[i] = skills[j] => i = j
            /\ \A term \in terms :
                   \E i \in 1..Len(skills) : skills[i] = [str |-> <<term>>]

(* C26: forgotPassword does not reveal whether an email is registered: two *)
(* requests that differ only in whether the email belongs to a user get    *)
(* the same status and body                                                *)
Finished(fn) ==
    {r \in DOMAIN requests : requests[r].fn = fn /\ requests[r].pc = "done"}

C26_SameReplyForAnyEmail ==
    \A r1, r2 \in Finished("forgotPassword") :
        (requests[r1].email \in DOMAIN users /\ requests[r2].email \notin DOMAIN users)
            => requests[r1].reply = requests[r2].reply

(* C27: for any interleaving of resetPassword requests on one account, at *)
(* most 5 wrong guesses are ever compared with one issued OTP: once 5      *)
(* failed attempts have been made, every further request, also one with    *)
(* the right OTP, is refused with 429                                      *)
C27_AtMostFiveWrongGuesses ==
    /\ history.wrong <= 5
    /\ \A r \in Finished("resetPassword") :
           (requests[r].saw = "issued" /\ requests[r].wrongBefore >= 5)
               => requests[r].reply.status = 429

C29_LogSettledWhenFinished ==
    (pc = "done" /\ processingLog # "none") =>
        processingLog \in {"completed", "failed"}

(* C30: after any interleaving of generateUserRoadmap requests of one     *)
(* user at most one Roadmap document exists for that user; a request that  *)
(* finds an existing roadmap returns it and creates nothing                *)
RoadmapsOf(user) == {i \in 1..Len(roadmaps) : roadmaps[i].user = user}

C30_OneRoadmapPerUser ==
    /\ \A user \in DOMAIN users : Cardinality(RoadmapsOf(user)) <= 1
    /\ \A r \in Finished("generateUserRoadmap") :
           requests[r].reply.status = 200 =>
               /\ ~requests[r].created
               /\ RoadmapsOf(requests[r].user) # {}

====
